\* A collection on account, then a payment of the sale it already paid for.
CONSTANTS
    cust1 = cust1
    cust2 = cust2
    sale1 = sale1
    sale2 = sale2
    till1 = till1
    till2 = till2
    NoRow = NoRow
    Lockable <- Rows
    Sessions = {till1}
    Sales = {sale1}
    Customers = {cust1}
    Carts <- SingleCarts
    Amounts = {1}
    Refunds = {"money", "store", "account"}
    Opening <- MCOpening
    Limit <- MCLimit
    Approvers = {}
SPECIFICATION Spec
SYMMETRY SameSales
INVARIANTS
    OwedNotNegative
