------------------------------ MODULE Figures ------------------------------
(***************************************************************************)
(* What the reports make of the books: apps/sales/financials.py and the    *)
(* reports of apps/reports/queries.py that are built on it, over sales,    *)
(* payments, returns, voids and expenses that are posted day by day.       *)
(*                                                                         *)
(* Two ways of counting meet here.  By invoice, a sale counts with what is *)
(* left of it; by movement, a sale counts on its day and a return on its   *)
(* own.  Quantities are whole units; the counting is of one business.      *)
(***************************************************************************)
EXTENDS SaleTotals

CONSTANTS
    Invoices,       \* identities of sales
    BookedCarts,    \* what is sold: lines with unit costs, and a discount
    Branch,         \* branches that sales and expenses are posted to
    Days,           \* bound: 1 .. Days
    MaxReturns,     \* bound: returns of all sales
    Spending,       \* bound: amounts that are spent
    Absent          \* a sale that was not made

ASSUME FiguresConstants ==
    /\ Days \in Nat \ {0} /\ MaxReturns \in Nat
    /\ Spending \subseteq Nat \ {0}
    /\ \A c \in BookedCarts : /\ c.lines \in Seq(CartLine) /\ c.costs \in Seq(Nat)
                              /\ Len(c.lines) = Len(c.costs) /\ c.discount \in Nat

VARIABLES
    books,          \* Sale with its lines and payments, or Absent
    returns,        \* the returns in the order of their posting
    spent,          \* the expenses
    today

figuresVars == <<books, returns, spent, today>>

Kinds == {"cash", "credit", "store"}
RefundKind == [cash |-> "cash", customer_account |-> "credit", store_credit |-> "store"]

FiguresInit ==
    /\ books = [x \in Invoices |-> Absent]
    /\ returns = <<>> /\ spent = <<>> /\ today = 1

-----------------------------------------------------------------------------
(* sales/financials.py                                                     *)

Made == {x \in Invoices : books[x] # Absent}
Lines(x) == DOMAIN books[x].lines

Of(x) == {n \in DOMAIN returns : returns[n].sale = x}
RefundTotal(n) == SumOver(DOMAIN returns[n].refund, LAMBDA i : returns[n].refund[i])
Refunded(N, methods) ==
    SumOver({n \in N : returns[n].method \in methods}, RefundTotal)

Methods == DOMAIN RefundKind
SettledRefunds == {"cash", "store_credit"}

\* tender_summary_from_records: payments of a kind less the refunds that map
\* to it.
Taken(x, kind) ==
    CASE kind = "cash" -> books[x].total - books[x].credit
                          + SumOver(DOMAIN books[x].later, LAMBDA n : books[x].later[n].amount)
      [] kind = "credit" -> books[x].credit
      [] OTHER -> 0
TenderNet(x, kind) ==
    IF books[x].voided THEN 0
    ELSE Taken(x, kind) - Refunded(Of(x), {m \in Methods : RefundKind[m] = kind})

\* financial_summary_for_sale
NetSales(x) == IF books[x].voided THEN 0 ELSE books[x].total - Refunded(Of(x), Methods)
NetPaid(x) ==
    IF books[x].voided THEN 0 ELSE books[x].paid - Refunded(Of(x), SettledRefunds)
Receivable(x) == Max({NetSales(x) - NetPaid(x), 0})

-----------------------------------------------------------------------------
(* Postings                                                                *)

\* What is posted of a cart: the totals, the unit costs and how it is paid.
PostSale == \E x \in Invoices \ Made, c \in BookedCarts, b \in Branch :
    /\ Accepted(c.lines, c.discount)
    /\ LET t == Totals(c.lines, c.discount, 1)
       IN  \E credit \in {0, t.total} :
             books' = [books EXCEPT ![x] =
                [day |-> today, branch |-> b, total |-> t.total, voided |-> FALSE,
                 discount |-> c.discount + SumOver(DOMAIN c.lines, LAMBDA i : c.lines[i].off),
                 paid |-> t.total - credit, later |-> <<>>,
                 credit |-> credit,
                 lines |-> [i \in DOMAIN c.lines |->
                    [qty |-> c.lines[i].qty, off |-> c.lines[i].off,
                     total |-> t.lines[i].total, tax |-> t.lines[i].tax,
                     gross |-> Gross(c.lines[i]),
                     cost |-> c.costs[i] * c.lines[i].qty, back |-> 0]]]]
    /\ UNCHANGED <<returns, spent, today>>

\* process_return refunds the rounded price of a unit for each unit.
LineRefund(line, n) == n * HalfUp(line.total, line.qty)

PostReturn == \E x \in Made, m \in DOMAIN RefundKind :
    /\ Len(returns) < MaxReturns /\ ~ books[x].voided
    /\ \E qty \in [Lines(x) -> 0 .. 2] :
          /\ \A i \in Lines(x) : qty[i] <= books[x].lines[i].qty - books[x].lines[i].back
          /\ \E i \in Lines(x) : qty[i] > 0
          /\ returns' = Append(returns,
                [sale |-> x, day |-> today, branch |-> books[x].branch, method |-> m, qty |-> qty,
                 refund |-> [i \in Lines(x) |-> LineRefund(books[x].lines[i], qty[i])]])
          /\ \E i \in Lines(x) : LineRefund(books[x].lines[i], qty[i]) > 0
          /\ books' = [books EXCEPT ![x].lines =
                [i \in Lines(x) |-> [@[i] EXCEPT !.back = @ + qty[i]]]]
    /\ UNCHANGED <<spent, today>>

\* add_sale_payment takes at most what is receivable; here it is all of it.
PostPayment == \E x \in Made :
    /\ ~ books[x].voided /\ Receivable(x) > 0
    /\ books' = [books EXCEPT ![x].later = Append(@, [day |-> today, amount |-> Receivable(x)]),
                              ![x].paid = @ + Receivable(x)]
    /\ UNCHANGED <<returns, spent, today>>

PostVoid == \E x \in Made :
    /\ ~ books[x].voided /\ \A n \in DOMAIN returns : returns[n].sale # x
    /\ books' = [books EXCEPT ![x].voided = TRUE]
    /\ UNCHANGED <<returns, spent, today>>

PostExpense == \E a \in Spending, b \in Branch, status \in {"submitted", "paid", "rejected"} :
    /\ spent = <<>>
    /\ spent' = <<[day |-> today, branch |-> b, amount |-> a, status |-> status]>>
    /\ UNCHANGED <<books, returns, today>>

NextDay == today < Days /\ today' = today + 1 /\ UNCHANGED <<books, returns, spent>>

FiguresNext == PostSale \/ PostReturn \/ PostPayment \/ PostVoid \/ PostExpense \/ NextDay

FiguresSpec == FiguresInit /\ [][FiguresNext]_figuresVars

\* net_item_values: a line with what is left of it.
LineKept(line) ==
    LET share(v) == HalfUp(v * (line.qty - line.back), line.qty)
    IN  [revenue |-> share(line.total), tax |-> share(line.tax), cost |-> share(line.cost),
         profit |-> share(line.total) - share(line.tax) - share(line.cost)]

KeptOf(x, field) == SumOver(Lines(x), LAMBDA i : LineKept(books[x].lines[i])[field])

\* _invoice_discount_shares: by the taxable bases that were written, by the
\* prices when everything was free.
BaseWritten(line) == Max({line.total - line.tax, 0})
Weight(lines, i) ==
    IF \A j \in DOMAIN lines : BaseWritten(lines[j]) = 0 THEN lines[i].gross ELSE BaseWritten(lines[i])
DiscountShare(x, i) ==
    LET lines == books[x].lines
        discount == Max({books[x].discount - SumOver(Lines(x), LAMBDA j : lines[j].off), 0})
        all == SumOver(Lines(x), LAMBDA j : Weight(lines, j))
        of(j) == HalfUp(discount * Weight(lines, j), all)
    IN  IF discount = 0 \/ all = 0 THEN 0
        ELSE IF i < Len(lines) THEN of(i) ELSE discount - SumOver(1 .. Len(lines) - 1, of)

\* item_activity_summary: what was sold less what came back, each rounded.
SoldField(x, field) == SumOver(Lines(x), LAMBDA i : books[x].lines[i][field])
ReturnedField(n, field) ==
    LET x == returns[n].sale
        part(i) == HalfUp(books[x].lines[i][field] * returns[n].qty[i], books[x].lines[i].qty)
    IN  SumOver(Lines(x), part)
ReturnedDiscount(n) ==
    LET x == returns[n].sale
        part(i) == HalfUp((books[x].lines[i].off + DiscountShare(x, i)) * returns[n].qty[i],
                          books[x].lines[i].qty)
    IN  SumOver(Lines(x), part)

-----------------------------------------------------------------------------
(* reports/queries.py.  A filter is a period and a set of branches.        *)

Within(p, day, branch) == day \in p.from .. p.to /\ branch \in p.branches

\* _sales_base: by the day of the sale, without the voided ones.
SalesBase(p) ==
    {x \in Made : ~ books[x].voided /\ Within(p, books[x].day, books[x].branch)}
ReturnsBase(p) == {n \in DOMAIN returns : Within(p, returns[n].day, returns[n].branch)}

SalesSummary(p) ==
    [net |-> SumOver(SalesBase(p), NetSales), receivable |-> SumOver(SalesBase(p), Receivable),
     profit |-> SumOver(SalesBase(p), LAMBDA x : KeptOf(x, "profit"))]

ProductSales(p) == SumOver(SalesBase(p), LAMBDA x : KeptOf(x, "revenue"))
TaxReport(p) == SumOver(SalesBase(p), LAMBDA x : KeptOf(x, "tax"))
PaymentMethodsReport(p, kind) == SumOver(SalesBase(p), LAMBDA x : TenderNet(x, kind))

Spent(p, statuses) ==
    SumOver({n \in DOMAIN spent : /\ spent[n].status \in statuses
                                  /\ Within(p, spent[n].day, spent[n].branch)},
            LAMBDA n : spent[n].amount)
NotRejected == {"submitted", "paid"}

ProfitSummary(p) ==
    SumOver(SalesBase(p), LAMBDA x : KeptOf(x, "profit")) - Spent(p, NotRejected)

\* profit_loss counts returns by their own day.
Activity(p, field) ==
    SumOver(SalesBase(p), LAMBDA x : SoldField(x, field))
    - SumOver(ReturnsBase(p), LAMBDA n : ReturnedField(n, field))
Revenue(p) ==
    SumOver(SalesBase(p), LAMBDA x : SoldField(x, "total")) - SumOver(ReturnsBase(p), RefundTotal)
GrossProfit(p) == Revenue(p) - Activity(p, "tax") - Activity(p, "cost")
DiscountGiven(p) ==
    SumOver(SalesBase(p), LAMBDA x : books[x].discount)
    - SumOver(ReturnsBase(p), ReturnedDiscount)
ProfitLoss(p) == GrossProfit(p) - Spent(p, NotRejected)

\* cash_flow counts payments and refunds by their own day.
PaidInWithVoids(p) ==
    SumOver({x \in Made : Within(p, books[x].day, books[x].branch)}, LAMBDA x : Taken(x, "cash"))
PaidIn(p) ==
    LET within(x, day) == Within(p, day, books[x].branch)
        of(x) == (IF within(x, books[x].day) THEN books[x].total - books[x].credit ELSE 0)
                 + SumOver({n \in DOMAIN books[x].later : within(x, books[x].later[n].day)},
                           LAMBDA n : books[x].later[n].amount)
    IN  SumOver({x \in Made : ~ books[x].voided}, of)
CashIn(p) ==
    PaidIn(p)
    - SumOver({n \in ReturnsBase(p) : returns[n].method = "cash"}, RefundTotal)
CashFlow(p) == CashIn(p) - Spent(p, NotRejected)

-----------------------------------------------------------------------------
(* Properties                                                              *)

Everything == [from |-> 1, to |-> Days, branches |-> Branch]

\* Half money units by which rounding may separate the two ways of counting a
\* line: the price of each unit that came back, and the tax, the cost and the
\* refund of each return and of what is left.
Slack(x) ==
    LET parts(i) == Cardinality({n \in Of(x) : returns[n].qty[i] > 0})
        slack(i) == IF parts(i) = 0 THEN 0 ELSE books[x].lines[i].back + 3 * parts(i) + 3
    IN  SumOver(Lines(x), slack)
AllSlack == SumOver({x \in Made : ~ books[x].voided}, Slack)

\* The profit summary, which follows invoices, and the profit and loss, which
\* follows movements, tell the same profit of the whole time, whatever was
\* returned in whichever parts, paid late or voided; so do the daily report
\* and the product report with the sales.
ProfitsAgree ==
    /\ 2 * (ProfitSummary(Everything) - ProfitLoss(Everything)) \in -AllSlack .. AllSlack
    /\ 2 * (ProductSales(Everything) - SalesSummary(Everything).net) \in -AllSlack .. AllSlack
    /\ 2 * (TaxReport(Everything) - Activity(Everything, "tax")) \in -AllSlack .. AllSlack

\* The money that the cash flow counts by its day is the money that the
\* payment report counts by invoice, and nothing of a voided sale is in it.
TendersAgree == CashIn(Everything) = PaymentMethodsReport(Everything, "cash")

\* What each sale still brings is paid or receivable, or was paid too much.
SettledOrReceivable == \A x \in Made :
    /\ Receivable(x) = 0 \/ NetPaid(x) + Receivable(x) = NetSales(x)
    /\ books[x].voided => NetSales(x) = 0 /\ Receivable(x) = 0

\* No discount is lost or given back twice: when everything has come back,
\* what is left of the discounts is rounding.
DiscountsReturn ==
    /\ DiscountGiven(Everything) >= -AllSlack
    /\ (\A x \in Made : \A i \in Lines(x) :
           ~ books[x].voided => books[x].lines[i].back = books[x].lines[i].qty)
       => DiscountGiven(Everything) <= AllSlack

\* The books of the days and of the branches add up to the books of the year.
PeriodsAddUp == \A d \in 1 .. Days - 1 :
    LET first == [Everything EXCEPT !.to = d]
        then == [Everything EXCEPT !.from = d + 1]
    IN  /\ ProfitLoss(first) + ProfitLoss(then) = ProfitLoss(Everything)
        /\ CashFlow(first) + CashFlow(then) = CashFlow(Everything)
        /\ \A b \in Branch :
              ProfitLoss([Everything EXCEPT !.branches = {b}])
              + ProfitLoss([Everything EXCEPT !.branches = Branch \ {b}]) = ProfitLoss(Everything)

FiguresAgree ==
    ProfitsAgree /\ TendersAgree /\ SettledOrReceivable /\ DiscountsReturn /\ PeriodsAddUp
=============================================================================
