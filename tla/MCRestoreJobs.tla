----------------------------- MODULE MCRestoreJobs -----------------------------
(* Small instances of RestoreJobs.                                            *)
EXTENDS RestoreJobs

CONSTANTS b1, b2, r1, w1, w2, p1

\* Either one job is sent twice, or both are sent once; the business writes
\* only beside a restore that meets no fault.
Written == data - Len(replaced[r1])
TwoSends ==
    /\ journal[b1].attempts + journal[r1].attempts <= 2
    /\ Written > 0 => ~journal[b1].intent /\ faults = 0
=============================================================================
