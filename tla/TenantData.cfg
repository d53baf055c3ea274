\* A shop that has linked its rows, and a backup of it, among the other parts.
CONSTANTS
    x1 = x1
    x2 = x2
    f1 = f1
    o1 = o1
    o2 = o2
    o3 = o3
    again = again
    b1 = b1
    b2 = b2
    b3 = b3
    w1 = w1
    w2 = w2
    k1 = k1
    c1 = c1
    c2 = c2
    ExportPlan <- MCExportPlan
    CapturePlan <- MCCapturePlan
    MostMishaps = 2
    Objects = {o1, o2, o3, again}
    Backups = {b1, b2, b3}
    Threads = {w1, w2}
    NoCall = NoCall
    Of <- MCOf
    MostFaults = 2
    Keep = 1
    Batch = 1
    Age <- MCAge
    MostPlans = 2
    MostReflagged = 1
    Keys = {k1}
    Clients = {c1, c2}
    Quiet = Quiet
    MostOutages = 2
    shop = shop
    other = other
    wa = wa
    wb = wb
    ca = ca
    cc = cc
    pa = pa
    pb = pb
    sa = sa
    sp = sp
    pm = pm
    img = img
    Gone = Gone
    Tenants = {shop, other}
    Rows = {wa, wb, ca, cc, pa, pb, sa, sp, pm}
    ModelOf <- MCModelOf
    OwnerOf <- MCOwnerOf
    PublicId <- MCPublicId
    Values = {1, 2}
    Media = {img}
    Scope = "POS"
    FirstRows <- MCFirstRows
    MostEdits = 2
    ph1 = ph1
    ph2 = ph2
    Nobody = Nobody
    Photos <- MCPhotos
    MostSlips = 2
    MostAttempts = 2
    MostUploads = 2
SPECIFICATION MCSpec
SYMMETRY Symmetric
INVARIANTS
    BackupsResolve
CHECK_DEADLOCK FALSE
