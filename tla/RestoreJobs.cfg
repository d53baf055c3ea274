\* A backup and a restore of one business, two workers, a broker that fails, one fault.
CONSTANTS
    b1 = b1
    b2 = b2
    r1 = r1
    w1 = w1
    w2 = w2
    p1 = p1
    None = None
    Nobody = Nobody
    NoOperation = NoOperation
    Holders = {w1, w2}
    Operations = {b1, r1}
    Backups = {b1}
    Restores = {r1}
    Wanted = {b1}
    Publishers = {p1}
    Workers = {w1, w2}
    Immediate = 1
    Total = 2
    Retries = 1
    MostFaults = 1
    MostWrites = 1
SPECIFICATION FairSpec
CONSTRAINT TwoSends
INVARIANTS
    
    
    SafetyFirst

    
\* Everything that was asked for ends.
CHECK_DEADLOCK FALSE
