CONSTANTS
    t1 = t1
    t2 = t2
    p1 = p1
    tab1 = tab1
    tab2 = tab2
    b1 = b1
    b2 = b2
    h1 = h1
    e1 = e1
    f1 = f1
    m1 = m1
    Sessions = {t1, t2}
    Lockable <- MCLockable
    None = None
    Business = Business
    Supplier = Supplier
    PurchaseIds = {p1}
    Orders <- MCOrders
    Payable = {2}
    MaxPayments = 2
    Scale = 2
    Tills = {tab1, tab2}
    CashierOf <- MCCashier
    BranchOf <- MCBranch
    Carts <- MCCarts
    HeldIds = {h1}
    Gone = Gone
    Branches = {b1, b2}
    InvoicePrefixes = {"A", None}
    SegmentBranch = FALSE
    MaxToken = 2
    Opening <- MCOpening
    MaxPosts = 2
    MaxRenames = 1
    Actors = {"keeper", "owner"}
    Approvers = {"owner"}
    ExpenseIds = {e1}
    FixedOrder <- MCFixedOrder
    Months = {m1}
    Costs = {1, 2}
    Threshold = 2
    reg1 = reg1
    reg2 = reg2
    shift1 = shift1
    shift2 = shift2
    sale1 = sale1
    cost1 = cost1
    ann = ann
    front = front
    back = back
    NoRow = NoRow
    Registers = {reg1, reg2}
    Shifts = {shift1, shift2}
    Sales = {sale1}
    Expenses = {cost1}
    Users = {ann}
    Managers = {ann}
    Sites = {front, back}
    Requests = {t1, t2}
    CashAmounts = {1}
    Floats = {1}
    MostTaken = 1
    MostOther = 0
    MostReopened = 1
SPECIFICATION MCSpec
SYMMETRY Symmetric
CONSTRAINT OneAtATime
INVARIANTS
    PurchasesAddUp
    ExpensesAreApproved
    DrawersAddUp
PROPERTY CheckoutIsSafe
CHECK_DEADLOCK FALSE
