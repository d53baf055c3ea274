------------------------------ MODULE Payslips ------------------------------
(***************************************************************************)
(* The breakdown of a salary of apps/wms_salary: a day for every date of   *)
(* the month from the joining date on, or for every production entry, or   *)
(* both merged, and the locations they touch.  It replaces a draft, and a  *)
(* finalized salary is never calculated again.  There is one employee and  *)
(* one month; Payroll has the rates.  Every request locks the row of the   *)
(* employee (the queries for attendance and entries by their joins) or     *)
(* waits for it with the foreign key of a new record, and so is one step.  *)
(***************************************************************************)
EXTENDS Payroll

CONSTANTS
    LastDay,        \* the days of the month are 1 .. LastDay
    Places,         \* locations of the workshop
    MonthlyPay,     \* bound: fixed components of a salary
    Worth,          \* bound: minutes of a day, and what the pieces of a day bring
    MaxChanges      \* bound: records made, corrected or moved

Dates == 1 .. LastDay
Hand == [joined : 1 .. LastDay + 1, home : Places, kind : Compensation, monthly : Nat]
Day == [place : Places, worked : Nat, amount : Nat]
Slip == [status : SalaryStatus, who : Hand, days : UNION {[D -> Day] : D \in SUBSET Dates},
         places : SUBSET Places, fixed : Nat, produced : Nat, gross : Nat]

ASSUME PayslipConstants ==
    /\ LastDay \in Nat /\ MaxChanges \in Nat
    /\ Worth \subseteq Nat /\ MonthlyPay \subseteq Nat
    /\ None \notin Slip

VARIABLES
    hand,           \* WmsEmployee: joining date, location, compensation
    opened,         \* the location of the employee whom an attendance form has loaded, or None
    present,        \* WmsAttendance of a day, or None
    made,           \* WmsProductionEntry of a day with the amount of its lines, or None
    slip,           \* WmsSalary with its days and locations, or None
    changes         \* records made, corrected or moved

slipVars == <<hand, opened, present, made, slip, changes>>

PayslipsInit ==
    /\ hand \in [joined : {1}, home : Places, kind : Compensation, monthly : MonthlyPay]
    /\ present = [d \in Dates |-> None] /\ made = [d \in Dates |-> None]
    /\ opened = None /\ slip = None /\ changes = 0

Changes(vars) == changes < MaxChanges /\ changes' = changes + 1 /\ UNCHANGED vars

-----------------------------------------------------------------------------
(* What is recorded                                                        *)

\* The form loads the employee, and nothing locks the row before the insert.
OpenAttendance ==
    /\ opened = None
    /\ opened' = hand.home
    /\ UNCHANGED <<hand, present, made, slip, changes>>

RecordAttendance(d, w) ==
    /\ opened # None
    /\ opened' = None
    /\ present' = IF present[d] # None THEN present
                  ELSE [present EXCEPT ![d] = [place |-> opened, worked |-> w]]
    /\ Changes(<<hand, made, slip>>)

CorrectSheet(d, w) ==
    /\ present[d] # None
    /\ present' = [present EXCEPT ![d].worked = w]
    /\ Changes(<<hand, opened, made, slip>>)

RecordProduction(d, w) ==
    /\ made[d] = None
    /\ made' = [made EXCEPT ![d] = [place |-> hand.home, worth |-> w]]
    /\ Changes(<<hand, opened, present, slip>>)

CorrectProduction(d, w) ==
    /\ made[d] # None
    /\ made' = [made EXCEPT ![d].worth = w]
    /\ Changes(<<hand, opened, present, slip>>)

\* Another location, joining date or compensation.
SaveHand(new) ==
    /\ hand' = new
    /\ Changes(<<opened, present, made, slip>>)

-----------------------------------------------------------------------------
(* The breakdown                                                           *)

\* _fixed_breakdown: every date has a day, whether or not anybody came.
FixedDay(who, sheets, d) ==
    IF d \in DOMAIN sheets
    THEN [place |-> sheets[d].place, worked |-> sheets[d].worked, amount |-> 0]
    ELSE [place |-> who.home, worked |-> 0, amount |-> 0]

FixedBreakdown(who, sheets) == [d \in who.joined .. LastDay |-> FixedDay(who, sheets, d)]

\* _piece_breakdown: the entries since the employee has joined.
EveryEntry(who) == {d \in Dates : made[d] # None}
PieceDates(who) == {d \in who.joined .. LastDay : made[d] # None}
PieceBreakdown(who) ==
    [d \in PieceDates(who) |-> [place |-> made[d].place, worked |-> 0, amount |-> made[d].worth]]

\* _hybrid_breakdown: an entry moves the day on which nobody was recorded.
HybridBreakdown(who, sheets) ==
    LET fixed == FixedBreakdown(who, sheets)
        pieces == PieceBreakdown(who)
    IN  [d \in DOMAIN fixed |->
            IF d \in DOMAIN pieces
            THEN [pieces[d] EXCEPT !.worked = fixed[d].worked] ELSE fixed[d]]

\* ... and is refused where attendance was recorded elsewhere.
Mergeable(who, sheets) ==
    \A d \in DOMAIN sheets \cap PieceDates(who) : sheets[d].place = made[d].place

Breakdown(who, sheets) ==
    CASE who.kind = "fixed" -> FixedBreakdown(who, sheets)
      [] who.kind = "piece" -> PieceBreakdown(who)
      [] who.kind = "hybrid" -> HybridBreakdown(who, sheets)

Locations(who, days) == {who.home} \cup {days[d].place : d \in DOMAIN days}

Amounts(days) == [d \in DOMAIN days |-> days[d].amount]
Produced(days) == MapThenSumSet(LAMBDA d : Amounts(days)[d], DOMAIN days)

-----------------------------------------------------------------------------
(* What the models refuse to save, with the whole request                  *)

\* WmsSalary.clean.
SlipCleans(old, new) ==
    /\ new.gross = new.fixed + new.produced
    /\ new.who.kind = "piece" => new.fixed = 0
    /\ new.who.kind = "fixed" => new.produced = 0
    /\ IF old = None THEN new.status = "calculated"
       ELSE old.status = "finalized" => new = old

\* WmsSalaryDay.clean.
DayCleans(who, sheets, d, day) ==
    /\ d \in Dates
    /\ who.kind = "piece" => made[d] # None
    /\ (who.kind # "piece" /\ d \in DOMAIN sheets) => sheets[d].place = day.place
    /\ (who.kind # "fixed" /\ made[d] # None) => made[d].place = day.place

\* WmsSalaryPieceLine, the lines of a day together.
PiecesClean(who, d, day) ==
    day.amount # 0 => who.kind # "fixed" /\ made[d] # None /\ day.amount = made[d].worth

-----------------------------------------------------------------------------
(* calculate_salary, finalize_salary                                       *)

\* The attendance since the employee has joined; who is paid by the piece needs none.
Sheets(who) ==
    LET read == IF who.kind = "piece" THEN {}
                ELSE {d \in who.joined .. LastDay : present[d] # None}
    IN  [d \in read |-> present[d]]

\* The draft is replaced with its days.  allowed: the locations of the user.
CalculateSlip(allowed) ==
    /\ hand.joined <= LastDay
    /\ slip # None => slip.status = "calculated"
    /\ LET sheets == Sheets(hand)
           days == Breakdown(hand, sheets)
           new == [status |-> "calculated", who |-> hand, days |-> days,
                   places |-> Locations(hand, days),
                   fixed |-> Monthly(hand), produced |-> Produced(days),
                   gross |-> Monthly(hand) + Produced(days)]
       IN  /\ hand.kind = "hybrid" => Mergeable(hand, sheets)
           /\ new.places \subseteq allowed
           /\ SlipCleans(slip, new)
           /\ \A d \in DOMAIN days :
                 DayCleans(hand, sheets, d, days[d]) /\ PiecesClean(hand, d, days[d])
           /\ slip' = new
    /\ UNCHANGED <<hand, opened, present, made, changes>>

FinalizeSlip(allowed) ==
    /\ slip # None
    /\ slip.status = "calculated" /\ slip.places \subseteq allowed
    /\ slip' = [slip EXCEPT !.status = "finalized"]
    /\ SlipCleans(slip, slip')
    /\ UNCHANGED <<hand, opened, present, made, changes>>

PayslipsNext ==
    \/ OpenAttendance
    \/ \E d \in Dates, w \in Worth :
          \/ RecordAttendance(d, w) \/ CorrectSheet(d, w)
          \/ RecordProduction(d, w) \/ CorrectProduction(d, w)
    \/ \E new \in [joined : 1 .. LastDay + 1, home : Places, kind : Compensation, monthly : MonthlyPay] :
          SaveHand(new)
    \/ \E allowed \in SUBSET Places : CalculateSlip(allowed) \/ FinalizeSlip(allowed)

PayslipsSpec == PayslipsInit /\ [][PayslipsNext]_slipVars

-----------------------------------------------------------------------------
(* Properties                                                              *)

Since(who) == who.joined .. LastDay
Minutes(d) == IF present[d] = None THEN 0 ELSE present[d].worked
Earned == [d \in Dates |-> IF made[d] = None THEN 0 ELSE made[d].worth]

RecordsTypeOK ==
    /\ hand \in Hand
    /\ opened \in Places \cup {None}
    /\ present \in [Dates -> {None} \cup [place : Places, worked : Nat]]
    /\ made \in [Dates -> {None} \cup [place : Places, worth : Nat]]
    /\ changes \in Nat

PayslipsTypeOK == RecordsTypeOK /\ slip \in {None} \cup Slip

\* A slip mirrors attendance and production as they are when it is saved: no
\* date and no piece of the employee is left out or paid twice, and no day is
\* at a location where the employee was not, or that is not on the slip.
Mirrors(s) ==
    /\ s.who = hand
    /\ s.gross = Monthly(hand)
         + (IF hand.kind = "fixed" THEN 0 ELSE MapThenSumSet(LAMBDA d : Earned[d], Since(hand)))
    /\ hand.kind # "piece" => /\ DOMAIN s.days = Since(hand)
                              /\ \A d \in Since(hand) : s.days[d].worked = Minutes(d)
    /\ \A d \in DOMAIN s.days :
          /\ d >= hand.joined /\ s.days[d].place \in s.places
          /\ (hand.kind # "piece" /\ present[d] # None) => s.days[d].place = present[d].place
          /\ (hand.kind # "fixed" /\ made[d] # None) => s.days[d].place = made[d].place

\* A slip is saved as a whole, as often as it is calculated, and stays as it
\* is from the moment when it is finalized, whatever is corrected since.
SlipsStand ==
    [][ /\ slip' # None
        /\ slip # None => slip.status = "calculated"
        /\ IF slip'.status = "calculated" THEN Mirrors(slip')
           ELSE slip # None /\ slip' = [slip EXCEPT !.status = "finalized"] ]_slip
=============================================================================
