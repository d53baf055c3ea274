------------------------------ MODULE MCOffice ------------------------------
(***************************************************************************)
(* The instances of SaleTotals, Figures and the workshop for TLC.  One     *)
(* behaviour plays in one part, which the initial state picks.  A basket   *)
(* is filled line by line, then given a discount and paid row by row, so   *)
(* that every small cart meets every small way of paying.                  *)
(***************************************************************************)
EXTENDS Figures, Payslips, TLC

CONSTANTS p1, p2, i1, t1, t2, e1, e2, c1, c2, o1, o2, d1, m1, a1

VARIABLES part, basket

L(q, p, o, r, incl) == [qty |-> q, price |-> p, off |-> o, rate |-> r, inclusive |-> incl]

MCBooked == {[lines |-> << L(3, 2, 1, 20, FALSE), L(1, 3, 0, 0, FALSE) >>,
              costs |-> << 1, 2 >>, discount |-> 2],
             [lines |-> << L(2, 5, 0, 20, TRUE) >>, costs |-> << 2 >>, discount |-> 0]}

MCLines == {L(1, 1, 0, 0, FALSE), L(2, 3, 1, 20, FALSE), L(1, 5, 0, 20, TRUE), L(3, 2, 6, 10, FALSE)}

MCLockable == {Business, Loc, e1, e2, c1, c2, o1, o2, a1}
              \cup {<<e, x>> : e \in {e1, e2}, x \in {c1, c2, d1, m1}}
MCShifts == {[first |-> [start |-> 1, end |-> 3], second |-> [start |-> 4, end |-> 6], grace |-> g] :
                g \in {0, 1}}
            \cup {[first |-> [start |-> 2, end |-> 3], second |-> [start |-> 3, end |-> 7], grace |-> 0]}

Symmetric == Permutations({t1, t2})

MCVars == <<part, basket, figuresVars, payrollVars, slipVars>>

Empty == [lines |-> <<>>, discount |-> 0, step |-> 1, rows |-> <<>>]

Parts == {"basket", "figures", "orders", "recording", "repairs", "staff", "pay", "days", "slips"}

MCInit ==
    /\ FiguresInit /\ PayrollInit /\ PayslipsInit
    /\ part \in Parts /\ basket = Empty
    /\ part # "days" => shifts.grace = 1
    /\ hand.home = p1 /\ (part # "slips" => hand.kind = "fixed")
    /\ LET first == entry[<<e1, d1>>]
       IN  /\ (\A x \in {e1, e2} \X {c1, c2} :
                  (assignment[x] = None) <=> (part = "staff" /\ x = <<e1, c1>>))
           /\ first # None /\ (part # "orders" => first[1].op = c1 /\ first[1].qty = 1)

FillBasket ==
    \/ \E l \in MCLines : /\ Len(basket.lines) < 3 /\ basket.rows = <<>>
                          /\ basket.discount = 0 /\ basket.step = 1
                          /\ basket' = [basket EXCEPT !.lines = Append(@, l)]
    \/ \E d \in 1 .. 6 : /\ basket.discount = 0 /\ basket.lines # <<>> /\ basket.rows = <<>>
                         /\ basket' = [basket EXCEPT !.discount = d]
    \/ /\ basket.step = 1 /\ basket.rows = <<>>
       /\ basket' = [basket EXCEPT !.step = 5]
    \/ \E k \in {"cash", "card", "credit"}, a \in {2, 5, 9} :
          /\ Len(basket.rows) < 2 /\ Len(basket.lines) \in 1 .. 2
          /\ basket' = [basket EXCEPT !.rows = Append(@, [kind |-> k, amount |-> a])]


Asked(Allowed(_)) == \A s \in Sessions : req'[s] # None => Allowed(req'[s])
Alone(s) == \A r \in Sessions \ {s} : req[r] = None
Working(s) == LockWork(s) \/ CommitWork(s) \/ AbandonWork(s)

\* One desk at a time tries every line of an order from before counting; two
\* desks record one operation on a new order, in two entries.
OneDesk(s) == Alone(s) /\ (RequestWork(s) \/ Working(s))

AtOneDesk(q) == q.op \notin {"receive", "record"}
AtTwoDesks(q) ==
    CASE q.op = "record" -> q.lines = << [order |-> o2, op |-> c1, qty |-> 1, gone |-> FALSE] >>
      [] q.op = "correct" ->
            /\ q.added # {} /\ \A i \in q.added : q.rows[i].order = o2 /\ q.rows[i].qty = 1
            /\ \A i \in DOMAIN q.rows : q.rows[i].op = c1
      [] q.op = "receive" -> q.of = {o2} /\ q.pieces = 1
      [] q.op = "finish" -> q.of = {o2}
      [] q.op = "count" -> q.of = o2
      [] q.op = "quantities" -> FALSE
      [] OTHER -> TRUE

Repairs(s) == RequestRepair(s) \/ CommitRepair(s) \/ LockWork(s) \/ AbandonWork(s)

\* Salaries beside changes of what they pay.
Paying(s) ==
    /\ \A r \in Sessions \ {s} : req[r] # None => req[r].op \notin {"calculate", "finalize"}
    /\ RequestPay(s)
ChangesPay(q) ==
    CASE q.op = "pay as" -> q.who = e1 /\ q.amount = 2
      [] q.op = "rate" -> q.who = e1 /\ q.of = c1 /\ q.rate # 1
      [] q.op = "quantities" -> q.qty # 1
      [] OTHER -> q.op \in {"calculate", "finalize"} => q.who = e1
Meanwhile(s) ==
    \/ /\ \/ RequestCompensation(s) \/ RequestRate(s) \/ SaveEmployee(s) \/ SaveAssignment(s)
       /\ UNCHANGED <<productionVars, alteration, payVars>>
    \/ /\ \/ RequestQuantities(s) \/ LockLines(s) \/ CorrectQuantities(s)
       /\ UNCHANGED payVars
    \/ CommitPay(s) \/ LockPay(s) \/ AbandonPay(s)

Hiring(s) ==
    /\ Alone(s)
    /\ \/ /\ RequestStaff(s)
          /\ IF req'[s].op = "category" THEN req'[s].of = c1 ELSE req'[s].who = e1
          /\ req'[s].op \in {"assign", "rate", "active"} => req'[s].of = c1
          /\ req'[s].op = "pay as" => req'[s].amount = 1
       \/ CommitStaff(s) \/ LockStaff(s) \/ AbandonStaff(s)

MCNext ==
    /\ UNCHANGED part
    /\ \/ part = "figures" /\ FiguresNext /\ UNCHANGED <<basket, payrollVars, slipVars>>
       \/ part = "basket" /\ FillBasket /\ UNCHANGED <<figuresVars, payrollVars, slipVars>>
       \/ part = "slips" /\ PayslipsNext /\ UNCHANGED <<basket, figuresVars, payrollVars>>
       \/ /\ part \notin {"figures", "basket", "slips"}
          /\ UNCHANGED <<basket, figuresVars, slipVars>>
          /\ \/ part = "days" /\ AttendanceNext /\ UNCHANGED workshopVars
             \/ \E s \in Sessions :
                  \/ part = "orders" /\ OneDesk(s) /\ Asked(AtOneDesk) /\ UNCHANGED payVars
                  \/ part = "recording" /\ (RequestWork(s) \/ Working(s)) /\ Asked(AtTwoDesks)
                     /\ UNCHANGED payVars
                  \/ part = "repairs" /\ Repairs(s) /\ UNCHANGED payVars
                  \/ part = "staff" /\ Hiring(s) /\ UNCHANGED <<productionVars, alteration, payVars>>
                  \/ part = "pay" /\ (Paying(s) \/ Meanwhile(s)) /\ Asked(ChangesPay)

MCSpec == MCInit /\ [][MCNext]_MCVars

Owed(b) == Totals(b.lines, b.discount, b.step).total

\* Every cart that is accepted adds up, and so does every payment of it.
BasketAddsUp ==
    /\ TotalsAddUp(basket.lines, basket.discount, basket.step)
    /\ Accepted(basket.lines, basket.discount) => PaymentsAddUp(basket.rows, Owed(basket))

\* sales/services.py:1405, complete_sale: "store net cash received".
CashIsStoredNet ==
    Accepted(basket.lines, basket.discount) => NetCashStored(basket.rows, Owed(basket))
=============================================================================
