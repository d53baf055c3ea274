------------------------------ MODULE RowLocks ------------------------------
(***************************************************************************)
(* What SELECT ... FOR UPDATE does for the requests of the web workers.    *)
(* Each request is one database transaction: it asks for row locks one     *)
(* after the other, waits while another transaction holds the row, and     *)
(* keeps every lock until it ends.  A Django query that follows foreign    *)
(* keys with select_related locks the joined rows as well, table by table. *)
(*                                                                         *)
(* A definition that no other one uses, just before one of the same shape, *)
(* is the slip that a property has to find out.                            *)
(***************************************************************************)
EXTENDS Sequences

CONSTANTS
    Sessions,       \* requests that may run at the same time
    Lockable        \* the rows that are locked

VARIABLES
    want,           \* per session: the rows it has yet to lock, in order
    held            \* per session: the rows it has locked

lockVars == <<want, held>>

LocksTypeOK ==
    /\ want \in [Sessions -> Seq(Lockable)]
    /\ held \in [Sessions -> SUBSET Lockable]

InitLocks ==
    /\ want = [s \in Sessions |-> <<>>]
    /\ held = [s \in Sessions |-> {}]

\* The database grants a row that no other transaction holds.
GrantedToAll(s, row) == TRUE
Granted(s, row) == \A r \in Sessions \ {s} : row \notin held[r]

Ask(s, rows) ==
    /\ want' = [want EXCEPT ![s] = rows]
    /\ UNCHANGED held

Take(s) ==
    /\ want[s] # <<>>
    /\ Granted(s, Head(want[s]))
    /\ held' = [held EXCEPT ![s] = @ \cup {Head(want[s])}]
    /\ want' = [want EXCEPT ![s] = Tail(@)]

\* COMMIT or ROLLBACK.
Release(s) ==
    /\ want' = [want EXCEPT ![s] = <<>>]
    /\ held' = [held EXCEPT ![s] = {}]

WaitsFor(s, r) == s # r /\ want[s] # <<>> /\ Head(want[s]) \in held[r]

\* A cycle of waiting transactions: the database aborts one of them.
NotDeadlocked(s) == FALSE
Deadlocked(s) == \E C \in SUBSET Sessions :
    /\ s \in C
    /\ \A x \in C : \E y \in C : WaitsFor(x, y)
    /\ \A x \in C : \E y \in C : WaitsFor(y, x)

\* No row is locked by two transactions.
Exclusive == \A s, r \in Sessions : s # r => held[s] \cap held[r] = {}

=============================================================================
