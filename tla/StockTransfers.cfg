\* Two transfers between two warehouses, handled by two sessions.
CONSTANTS
    w1 = w1
    w2 = w2
    cloth = cloth
    thread = thread
    meter = meter
    s1 = s1
    s2 = s2
    t1 = t1
    t2 = t2
    x1 = x1
    x2 = x2
    c1 = c1
    NoDoc = NoDoc
    Products <- MCProducts
    ProductOf <- MCProductOf
    Legacy <- MCLegacy
    Docs = {t1, t2, x1, x2, c1}
    Warehouses = {w1, w2}
    Items = {cloth, thread}
    MeterParents = {}
    Postings <- TransferPostings
    Policies = {"block"}
    Assignable = {}
    Sessions = {s1, s2}
    MaxMoves = 4
    Transfers = {t1, t2}
    Adjustments = {}
    Counts = {}
    Rows <- TransferRows
    Reasons = {"loss"}
    CountValues = {}
SPECIFICATION TransfersSpec
INVARIANTS
    TransfersAddUp
PROPERTIES
    RequestsEnd
    DocumentsSettle
    TransfersAreHandOvers
\* The documents are finitely many and the history bound ends the postings.
CHECK_DEADLOCK FALSE
