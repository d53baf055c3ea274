\* A restore whose message comes twice, beside a business that writes in between.
CONSTANTS
    b1 = b1
    b2 = b2
    r1 = r1
    w1 = w1
    w2 = w2
    p1 = p1
    None = None
    Nobody = Nobody
    NoOperation = NoOperation
    Holders = {w1, w2}
    Operations = {b1, b2, r1}
    Backups = {b1, b2}
    Restores = {r1}
    Wanted = {}
    Publishers = {p1}
    Workers = {w1, w2}
    Immediate = 2
    Total = 2
    Retries = 0
    MostFaults = 0
    MostWrites = 1
SPECIFICATION Spec
INVARIANTS
    SafetyBackupIsCurrent
CHECK_DEADLOCK FALSE
