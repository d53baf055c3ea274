---------------------------- MODULE WebRequests ----------------------------
(***************************************************************************)
(* A request of a web worker as the services of the apps are built: it     *)
(* names the rows it locks, in order, reads each one when it has the lock, *)
(* decides from what it read, and writes and releases everything in one    *)
(* commit.  A refusal (ValidationError, Http404), a deadlock and the loss  *)
(* of the worker roll the whole of it back.                                *)
(***************************************************************************)
EXTENDS RowLocks

CONSTANTS
    None,           \* an empty place
    Business        \* the row of the business, which numbering locks

VARIABLES
    req,            \* per session: the request it executes, or None
    seen            \* per session: the rows it locked, as it read them

webVars == <<want, held, req, seen>>

NothingSeen == << >>

WebInit ==
    /\ InitLocks
    /\ req = [s \in Sessions |-> None]
    /\ seen = [s \in Sessions |-> NothingSeen]

Begin(s, q, rows) ==
    /\ req[s] = None
    /\ req' = [req EXCEPT ![s] = q]
    /\ Ask(s, rows)
    /\ UNCHANGED seen

\* The next lock is granted, and the row is read as it is now: a transaction
\* at READ COMMITTED that waited for a row reads it again.
ReadLocked(s, now(_)) ==
    /\ Take(s)
    /\ LET row == Head(want[s])
       IN  seen' = [seen EXCEPT ![s] =
                       [x \in DOMAIN @ \cup {row} |-> IF x = row THEN now(x) ELSE @[x]]]
    /\ UNCHANGED req

\* Every lock is held.
Ready(s) == req[s] # None /\ want[s] = <<>>

End(s) ==
    /\ req' = [req EXCEPT ![s] = None]
    /\ seen' = [seen EXCEPT ![s] = NothingSeen]
    /\ Release(s)

\* A refusal, the loss of the worker, or the end of a deadlock.
RollBack(s) == req[s] # None /\ End(s)
=============================================================================
