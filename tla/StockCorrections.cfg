\* Crossing transactions on two warehouses; and adjustments of a plain item and of a Meter parent in two sessions, some awaiting approval,
\* or a count at which one request at a time works, while others sell.
CONSTANTS
    w1 = w1
    w2 = w2
    cloth = cloth
    thread = thread
    meter = meter
    s1 = s1
    s2 = s2
    t1 = t1
    t2 = t2
    x1 = x1
    x2 = x2
    c1 = c1
    NoDoc = NoDoc
    Products <- MCProducts
    ProductOf <- MCProductOf
    Legacy <- MCLegacy
    Docs = {t1, t2, x1, x2, c1}
    Warehouses = {w1, w2}
    Items = {cloth, thread, meter}
    MeterParents = {meter}
    Postings <- LedgerPostings
    Policies = {"block", "warn", "allow"}
    Assignable <- MCAssignable
    Sessions = {s1, s2}
    MaxMoves = 3
    Transfers = {}
    Adjustments = {x1, x2}
    Counts = {c1}
    Rows <- AdjustRows
    Reasons = {"expiry", "count"}
    CountValues = {0, 3}
SPECIFICATION MCSpec
SYMMETRY MCSymmetry
CONSTRAINT MCOneKind
INVARIANTS
    LedgerChain
    NoOversell
    MeterParentOnlyRepaired
    AverageWithinCosts
    
\* The documents are finitely many and the history bound ends the postings.
CHECK_DEADLOCK FALSE
