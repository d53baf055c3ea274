----------------------------- MODULE Workforce -----------------------------
(***************************************************************************)
(* The people of the workshop of apps/wms_workforce/services.py: employees *)
(* with their compensation, production categories, and which employee may  *)
(* do what at which rate.  A request locks its rows stage by stage: what   *)
(* it locks next is found by a query, when the rows before are locked.     *)
(* There is one location, which most queries lock by their joins.          *)
(***************************************************************************)
EXTENDS WebRequests, Integers, FiniteSetsExt, SequencesExt

CONSTANTS
    Loc,            \* the row of the location and its branch
    Staff,          \* employees
    Ops,            \* production categories
    Rates           \* bound: rates per piece and monthly salaries

ASSUME WorkforceConstants ==
    /\ Rates \subseteq Nat
    /\ {Loc, Business} \cup Staff \cup Ops \cup (Staff \X Ops) \subseteq Lockable

VARIABLES
    staff,          \* WmsEmployee: active, compensation
    category,       \* WmsProductionCategory: active
    assignment      \* WmsEmployeeCategoryAssignment, or None

staffVars == <<staff, category, assignment>>
workforceVars == <<webVars, staffVars>>

Compensation == {"fixed", "piece", "hybrid"}
Employee == [active : BOOLEAN, kind : Compensation, monthly : Nat, rate : Nat]
Assignment == [active : BOOLEAN, rate : Nat \cup {None}]

WorkforceInit ==
    /\ WebInit
    /\ staff = [e \in Staff |-> [active |-> TRUE, kind |-> "piece", monthly |-> 0, rate |-> 1]]
    /\ category = [c \in Ops |-> TRUE]
    /\ \E X \in SUBSET (Staff \X Ops) :
          assignment = [x \in Staff \X Ops |->
                           IF x \in X THEN [active |-> TRUE, rate |-> None] ELSE None]

Assigned(S) == {x \in S : assignment[x] # None}
Active(S) == {x \in Assigned(S) : assignment[x].active}

\* In the order of the primary keys.
InOrder(S) == SetToSeq(S)

-----------------------------------------------------------------------------
(* Requests, with what the form saw before any lock                        *)

Start(s, q, rows) == Begin(s, [stage |-> 1] @@ q, rows) /\ UNCHANGED staffVars

RequestCompensation(s) == \E e \in Staff, k \in Compensation, n \in Rates :
    Start(s, [op |-> "pay as", who |-> e, kind |-> k, amount |-> n], << e >>)

RequestPresence(s) == \E e \in Staff, on \in BOOLEAN :
    Start(s, [op |-> "employee", who |-> e, on |-> on], << e >>)

RequestCategory(s) == \E c \in Ops, on \in BOOLEAN :
    Start(s, [op |-> "category", of |-> c, on |-> on], << c >>)

\* The employee and the category are objects that the form has loaded.
RequestAssign(s) == \E e \in Staff, c \in Ops, r \in Rates \cup {None} :
    Start(s, [op |-> "assign", who |-> e, of |-> c, rate |-> r,
              fit |-> staff[e].active /\ category[c], kind |-> staff[e].kind],
          InOrder(Assigned({<<e, c>>})))

RequestRate(s) == \E x \in Assigned(Staff \X Ops), r \in Rates \cup {None} :
    Start(s, [op |-> "rate", who |-> x[1], of |-> x[2], rate |-> r], << x >>)

RequestActive(s) == \E x \in Assigned(Staff \X Ops), on \in BOOLEAN :
    Start(s, [op |-> "active", who |-> x[1], of |-> x[2], on |-> on],
          << x, x[1], Loc, x[2] >>)

StaffRow(row) ==
    CASE row \in Staff -> staff[row]
      [] row \in Ops -> category[row]
      [] row \in Staff \X Ops -> assignment[row]
      [] OTHER -> None

LockStaff(s) == ReadLocked(s, StaffRow) /\ UNCHANGED staffVars

\* Who is dismissed loses the assignments that are active at that moment, and
\* so does a category that is closed.
ActiveOf(q) ==
    IF q.op = "employee" THEN Active({q.who} \X Ops) ELSE Active(Staff \X {q.of})

Switched(q) == IF q.op = "employee" THEN q.who ELSE q.of
WasOn(s) ==
    LET row == seen[s][Switched(req[s])]
    IN  IF req[s].op = "employee" THEN row.active ELSE row

LockAssignments(s) ==
    /\ Ready(s) /\ req[s].stage = 1
    /\ req[s].op \in {"employee", "category"} /\ WasOn(s) /\ ~req[s].on
    /\ req' = [req EXCEPT ![s].stage = 2]
    /\ Ask(s, InOrder(ActiveOf(req[s])) \o InOrder(UNION {Range(x) : x \in ActiveOf(req[s])}))
    /\ UNCHANGED <<seen, staffVars>>

-----------------------------------------------------------------------------
(* Commits                                                                 *)

Commits(s, ops) == Ready(s) /\ req[s].op \in ops /\ End(s)

SaveEmployee(s) ==
    /\ Commits(s, {"pay as"})
    /\ LET q == req[s]
       IN  staff' = [staff EXCEPT ![q.who] =
               [@ EXCEPT !.kind = q.kind,
                         !.monthly = IF q.kind = "piece" THEN 0 ELSE q.amount,
                         !.rate = IF q.kind = "fixed" THEN 0 ELSE q.amount]]
    /\ UNCHANGED <<category, assignment>>

\* The assignments that were locked are switched off.
Dismissed(s) ==
    [x \in DOMAIN assignment |->
        IF x \in DOMAIN seen[s] THEN [assignment[x] EXCEPT !.active = FALSE]
        ELSE assignment[x]]

SetEmployeeActive(s) ==
    /\ Commits(s, {"employee"})
    /\ WasOn(s) /\ ~req[s].on => req[s].stage = 2
    /\ staff' = [staff EXCEPT ![req[s].who].active = req[s].on]
    /\ assignment' = Dismissed(s)
    /\ UNCHANGED category

SetCategoryActive(s) ==
    /\ Commits(s, {"category"})
    /\ WasOn(s) /\ ~req[s].on => req[s].stage = 2
    /\ category' = [category EXCEPT ![req[s].of] = req[s].on]
    /\ assignment' = Dismissed(s)
    /\ UNCHANGED staff

\* WmsEmployeeCategoryAssignment.clean: a rate is for who is paid by the piece,
\* unless it was there, and only active people and categories are assigned.
Fits(x, rate, active, kind, fit) ==
    /\ (rate # None /\ kind = "fixed") =>
          assignment[x] # None /\ assignment[x].rate = rate
    /\ active => fit

\* A new assignment is judged by the objects of the form, one that exists by
\* the rows as they are committed; one that was created meanwhile is refused
\* by the unique constraint.
SaveAssignment(s) ==
    /\ Commits(s, {"assign", "rate"})
    /\ LET q   == req[s]
           x   == <<q.who, q.of>>
           old == IF x \in DOMAIN seen[s] THEN seen[s][x] ELSE None
           on  == q.op = "assign" \/ old.active
           keeps == q.op = "assign" /\ old # None /\ ~old.active /\ q.rate = None
                    /\ q.kind = "fixed"
           rate == IF keeps THEN old.rate ELSE q.rate
       IN  /\ IF old = None
              THEN assignment[x] = None /\ Fits(x, rate, TRUE, q.kind, q.fit)
              ELSE Fits(x, rate, on, staff[q.who].kind, staff[q.who].active /\ category[q.of])
           /\ assignment' = [assignment EXCEPT ![x] = [active |-> on, rate |-> rate]]
    /\ UNCHANGED <<staff, category>>

SetAssignmentActive(s) ==
    /\ Commits(s, {"active"})
    /\ LET q == req[s]
       IN  /\ q.on => seen[s][q.who].active /\ seen[s][q.of]
           /\ assignment' = [assignment EXCEPT ![<<q.who, q.of>>].active = q.on]
    /\ UNCHANGED <<staff, category>>

AbandonStaff(s) == RollBack(s) /\ UNCHANGED staffVars

RequestStaff(s) ==
    \/ RequestCompensation(s) \/ RequestPresence(s) \/ RequestCategory(s)
    \/ RequestAssign(s) \/ RequestRate(s) \/ RequestActive(s)

CommitStaff(s) ==
    \/ LockAssignments(s)
    \/ SaveEmployee(s) \/ SetEmployeeActive(s) \/ SetCategoryActive(s)
    \/ SaveAssignment(s) \/ SetAssignmentActive(s)
=============================================================================
