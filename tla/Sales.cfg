\* Two tills and one customer at a time: a sale of two units for three that is paid, voided,
\* returned and collected, or two sales on credit and for store credit.  They all end.
CONSTANTS
    cust1 = cust1
    cust2 = cust2
    sale1 = sale1
    sale2 = sale2
    till1 = till1
    till2 = till2
    NoRow = NoRow
    Lockable <- Rows
    Sessions = {till1, till2}
    Sales = {sale1, sale2}
    Customers = {cust1, cust2}
    Carts <- AllCarts
    Amounts = {2}
    Refunds = {"store", "account"}
    Opening <- MCOpening
    Limit <- MCLimit
    Approvers = {till1}
SPECIFICATION MCFairSpec
INVARIANTS
    GoodsBackOnce
    NeverOverpaid
    BalanceAddsUp
    RefundsProportional
PROPERTIES
    AccountsInBounds
    RequestsEnd
