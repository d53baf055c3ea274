CONSTANTS
    Nothing = Nothing
    basic = basic
    shop = shop
    Plans = {basic, shop}
    PlanRows <- MCPlanRows
    Modules <- MCModules
    Needs <- MCNeeds
    DerivedFrom <- MCDerivedFrom
    GraceDays = 1
    TrialDays = 1
    ActivationDays = 1
    Terms = {1}
    SameZone = FALSE
    LastDay = 2
    LastEnd = 2
    MaxReceipts = 2
    r1 = r1
    r2 = r2
    ann = ann
    bob = bob
    eve = eve
    chief = chief
    cashier = cashier
    staff = staff
    tailor = tailor
    Members = {ann, bob, eve}
    Owner = ann
    OwnerRole = chief
    SystemRoles = {staff}
    StaffRole = staff
    CustomRoles = {tailor}
    Clerks = {r1, r2}
    Absent = Absent
    p1 = p1
    p2 = p2
    v1 = v1
    v2 = v2
    shirt = shirt
    red = red
    NoRow = NoRow
    Products = {p1, p2}
    Variants = {v1, v2}
    Names = {shirt}
    Shades = {red}
    Editors = {r1, r2}
    MaxCode = 1
    MaxStock = 2
    Limit = 2
SPECIFICATION MCSpec
SYMMETRY Symmetric
CONSTRAINT FewPeriods
INVARIANTS
    
    ReversalsUndo
PROPERTIES
    SeatsAreBought
    CatalogHoldsTogether
CHECK_DEADLOCK FALSE
