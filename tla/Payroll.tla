------------------------------ MODULE Payroll ------------------------------
(***************************************************************************)
(* Salaries and attendance: apps/wms_salary, which draws the pay of a      *)
(* month from production as it is when it is calculated, once and for all  *)
(* when it is finalized, and apps/wms_attendance, which measures a day     *)
(* against the shifts that were set when it was recorded.                  *)
(***************************************************************************)
EXTENDS Workshop

CONSTANTS
    Month,          \* the month of all working days
    Shifts,         \* bound: settings of the two shifts
    Clock           \* bound: times of arriving and leaving, or None

ASSUME PayrollConstants == (Staff \X {Month}) \subseteq Lockable

VARIABLES
    salary,         \* WmsSalary of an employee for the month, or None
    shifts,         \* WmsSettings: the shifts and the grace period
    sheet           \* WmsAttendance of a day, or None

payVars == <<salary, shifts, sheet>>
payrollVars == <<workshopVars, payVars>>

SalaryStatus == {"calculated", "finalized"}
Shift == [start : Nat, end : Nat]
Settings == [first : Shift, second : Shift, grace : Nat]
Times == [in : Clock \cup {None}, out : Clock \cup {None}]

PayrollInit ==
    /\ WorkshopInit
    /\ salary = [e \in Staff |-> None]
    /\ shifts \in Shifts
    /\ sheet = None

-----------------------------------------------------------------------------
(* Salaries                                                                *)

Pay(s, q, rows) ==
    /\ Begin(s, [stage |-> 1] @@ q, rows)
    /\ UNCHANGED <<staffVars, productionVars, alteration, payVars>>

RequestSalary(s) == \E e \in Staff :
    Pay(s, [op |-> "calculate", who |-> e], << Business, e, Loc, <<e, Month>> >>)

RequestFinal(s) == \E e \in Staff :
    /\ salary[e] # None
    /\ Pay(s, [op |-> "finalize", who |-> e], << <<e, Month>>, e >>)

PayRow(row) == IF row \in Staff \X {Month} THEN salary[row[1]] ELSE WorkRow(row)

LockPay(s) ==
    ReadLocked(s, PayRow) /\ UNCHANGED <<staffVars, productionVars, alteration, payVars>>

MonthOf(e) == {n \in Recorded : n[1] = e}
LinesOf(s) == {n \in DOMAIN seen[s] : n \in Entries}
ByPiece(s) == seen[s][req[s].who].kind # "fixed"

\* Entries of the month, then their lines with orders and assignments.
LockMonth(s) ==
    /\ Ready(s) /\ req[s].op = "calculate" /\ ByPiece(s) /\ req[s].stage < 3
    /\ req' = [req EXCEPT ![s].stage = @ + 1]
    /\ LET e == req[s].who
           orders == UNION {Range(RowsOf(seen[s][n])) : n \in LinesOf(s)}
           ops == UNION {Range(OpsOf(e, seen[s][n])) : n \in LinesOf(s)}
       IN  Ask(s, IF req[s].stage = 1 THEN InOrder(MonthOf(e))
                  ELSE InOrder(orders) \o InOrder(ops))
    /\ UNCHANGED <<seen, staffVars, productionVars, alteration, payVars>>

\* The rate of the assignment, or else of the employee.
RateFor(who, rate) == IF rate = None THEN who.rate ELSE rate

PieceWork(lines, who, rates) ==
    SumFunctionOnSet([i \in DOMAIN lines |-> lines[i].qty * RateFor(who, rates[lines[i].op])],
                     Left(lines))

Monthly(who) == IF who.kind = "piece" THEN 0 ELSE who.monthly

\* The sum of the fixed and the production component.
GrossSalary(who, entries, rates) ==
    Monthly(who) + (IF who.kind = "fixed" THEN 0
                    ELSE MapThenSumSet(LAMBDA n : PieceWork(entries[n], who, rates),
                                       DOMAIN entries))

AnyTime(old) == TRUE
Recalculable(old) == old # None => old.status = "calculated"

CalculateSalary(s) ==
    /\ Ready(s) /\ req[s].op = "calculate" /\ End(s)
    /\ ByPiece(s) => req[s].stage = 3
    /\ LET e == req[s].who
           old == seen[s][<<e, Month>>]
           rates == [c \in {x[2] : x \in DOMAIN seen[s] \cap ({e} \X Ops)} |-> seen[s][<<e, c>>].rate]
       IN  /\ Recalculable(old)
           /\ salary' = [salary EXCEPT ![e] =
                [status |-> "calculated",
                 gross |-> GrossSalary(seen[s][e], [n \in LinesOf(s) |-> seen[s][n]], rates)]]
    /\ UNCHANGED <<staffVars, productionVars, alteration, shifts, sheet>>

FinalizeSalary(s) ==
    /\ Ready(s) /\ req[s].op = "finalize" /\ End(s)
    /\ seen[s][<<req[s].who, Month>>].status = "calculated"
    /\ salary' = [salary EXCEPT ![req[s].who].status = "finalized"]
    /\ UNCHANGED <<staffVars, productionVars, alteration, shifts, sheet>>

AbandonPay(s) == RollBack(s) /\ UNCHANGED <<staffVars, productionVars, alteration, payVars>>

RequestPay(s) == RequestSalary(s) \/ RequestFinal(s)
CommitPay(s) == LockMonth(s) \/ CalculateSalary(s) \/ FinalizeSalary(s)

-----------------------------------------------------------------------------
(* Attendance                                                              *)

Later(a, b) == IF a > b THEN a ELSE b
Earlier(a, b) == IF a < b THEN a ELSE b

ShiftStatus(at, shift, grace) ==
    IF at.in = None THEN "absent"
    ELSE IF at.in <= shift.start + grace THEN "present" ELSE "late"

WorkedMinutes(at, shift) ==
    IF at.in = None \/ at.out = None THEN 0
    ELSE Later(Earlier(at.out, shift.end) - Later(at.in, shift.start), 0)

Scheduled(shift) == shift.end - shift.start

\* WmsAttendance.clean.
TimesStand(at, shift) ==
    /\ (at.in # None /\ at.out # None) => at.in < at.out
    /\ at.in # None => at.in < shift.end

Measured(day) ==
    LET worked == WorkedMinutes(day.morning, day.shifts.first)
                  + WorkedMinutes(day.evening, day.shifts.second)
        whole == Scheduled(day.shifts.first) + Scheduled(day.shifts.second)
    IN  [morning |-> day.morning, evening |-> day.evening, shifts |-> day.shifts,
         statuses |-> << ShiftStatus(day.morning, day.shifts.first, day.shifts.grace),
                         ShiftStatus(day.evening, day.shifts.second, day.shifts.grace) >>,
         worked |-> worked, missing |-> Later(whole - worked, 0)]

DayStands(day) ==
    TimesStand(day.morning, day.shifts.first) /\ TimesStand(day.evening, day.shifts.second)

\* The shifts of the settings are copied when the day is recorded.
CreateAttendance(m, v) ==
    LET day == [morning |-> m, evening |-> v, shifts |-> shifts]
    IN  /\ sheet = None
        /\ DayStands(day)
        /\ sheet' = Measured(day)
        /\ UNCHANGED <<salary, shifts>>

\* A correction measures the new times by the shifts that were copied.
CorrectAttendance(m, v) ==
    LET day == [sheet EXCEPT !.morning = m, !.evening = v]
    IN  /\ sheet # None
        /\ DayStands(day)
        /\ sheet' = Measured(day)
        /\ UNCHANGED <<salary, shifts>>

SaveSettings(new) == shifts' = new /\ UNCHANGED <<salary, sheet>>

AttendanceNext ==
    \/ \E m, v \in Times : CreateAttendance(m, v) \/ CorrectAttendance(m, v)
    \/ \E new \in Shifts : SaveSettings(new)

-----------------------------------------------------------------------------
(* Properties                                                              *)

\* Every minute of the two shifts is either worked or missing, and nobody who
\* worked is absent, whatever the settings have become since.
DayAddsUp == sheet # None =>
    /\ sheet.worked + sheet.missing
          = Scheduled(sheet.shifts.first) + Scheduled(sheet.shifts.second)
    /\ sheet.worked > 0 => sheet.statuses # << "absent", "absent" >>

\* A salary is what the production of the month and the rates are at the
\* moment when it is saved, however entries, rates and compensation are
\* changed while it is calculated; finalized, it never changes.  An order that
\* is finished and an alteration that is completed stay as they are.
GrossNow(e) ==
    GrossSalary(staff[e], [n \in MonthOf(e) |-> entry[n]],
                [c \in {x[2] : x \in Assigned({e} \X Ops)} |-> assignment[<<e, c>>].rate])

SettledOnce ==
    [][/\ \A e \in Staff : salary'[e] # salary[e] =>
             /\ salary[e] # None => salary[e].status = "calculated"
             /\ salary'[e].gross = IF salary'[e].status = "calculated" THEN GrossNow(e)
                                   ELSE salary[e].gross
       /\ \A o \in KnownOrders : order[o].status = "finished" => order'[o] = order[o]
       /\ \A a \in Alterations :
             (alteration[a] # None /\ alteration[a].completed)
                => alteration'[a] = alteration[a]]_<<salary, order, alteration>>

\* The records of production and the days of attendance add up: no more pieces
\* than an order has, of orders without a count never more than before.
WorkshopAddsUp == [](WithinPieces /\ DayAddsUp) /\ UncountedOnlyShrinks
=============================================================================
