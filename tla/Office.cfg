CONSTANTS
    i1 = i1
    Invoices = {i1}
    BookedCarts <- MCBooked
    Branch = {"b1", "b2"}
    Days = 2
    MaxReturns = 2
    Spending = {3}
    Absent = Absent
    t1 = t1
    t2 = t2
    e1 = e1
    e2 = e2
    c1 = c1
    c2 = c2
    o1 = o1
    o2 = o2
    d1 = d1
    m1 = m1
    a1 = a1
    Sessions = {t1, t2}
    Lockable <- MCLockable
    None = None
    Business = Business
    Loc = Loc
    Staff = {e1, e2}
    Ops = {c1, c2}
    Rates = {1, 2}
    Orders = {o1, o2}
    WorkDays = {d1}
    Alterations = {a1}
    Pieces = {1, 2}
    MaxLines = 2
    Legacy = {o1}
    Month = m1
    Shifts <- MCShifts
    Clock = {1, 2, 3, 5}
    p1 = p1
    p2 = p2
    MonthlyPay = {3}
    LastDay = 2
    Places = {p1, p2}
    Worth = {1, 2}
    MaxChanges = 3
SPECIFICATION MCSpec
SYMMETRY Symmetric
INVARIANTS
    BasketAddsUp
    FiguresAgree
PROPERTIES
    WorkshopAddsUp
    SettledOnce
    SlipsStand
CHECK_DEADLOCK FALSE
