---------------------------- MODULE PayslipProofs ----------------------------
(***************************************************************************)
(* Theorems about Payslips: a salary that is calculated is attendance and  *)
(* production of the month as they are at that moment, for any number of   *)
(* days and locations and any history of records, moves and corrections;   *)
(* and it never changes once it is finalized.                              *)
(***************************************************************************)
EXTENDS Payslips, SumTheorems

LEMMA DatesAreFinite == \A S \in SUBSET Dates : IsFiniteSet(S)
<1>1. PICK n \in Nat : n = LastDay
  BY PayslipConstants
<1>2. IsFiniteSet(Dates)
  BY <1>1, FS_Interval DEF Dates
<1> QED BY <1>2, FS_Subset

LEMMA DaysSince == ASSUME NEW who \in Hand PROVE Since(who) \in SUBSET Dates
  BY PayslipConstants DEF Since, Dates, Hand

\* A step of the records keeps their types.
LEMMA RecordsKeepTypes ==
    ASSUME RecordsTypeOK, [PayslipsNext]_slipVars
    PROVE  RecordsTypeOK'
<1> USE PayslipConstants DEF RecordsTypeOK, Changes
<1>1. CASE OpenAttendance
  BY <1>1 DEF OpenAttendance, Hand
<1>2. ASSUME NEW d \in Dates, NEW w \in Worth, RecordAttendance(d, w) PROVE RecordsTypeOK'
  <2>1. [place |-> opened, worked |-> w] \in [place : Places, worked : Nat]
    BY <1>2 DEF RecordAttendance
  <2> QED BY <1>2, <2>1 DEF RecordAttendance
<1>3. ASSUME NEW d \in Dates, NEW w \in Worth, CorrectSheet(d, w) PROVE RecordsTypeOK'
  <2>1. PICK t \in [place : Places, worked : Nat] : t = present[d]
    BY <1>3 DEF CorrectSheet
  <2>2. [t EXCEPT !.worked = w] \in [place : Places, worked : Nat]
    BY <2>1
  <2>3. present' = [present EXCEPT ![d] = [t EXCEPT !.worked = w]]
    BY <1>3, <2>1, Zenon DEF CorrectSheet
  <2> QED BY <1>3, <2>2, <2>3 DEF CorrectSheet
<1>4. ASSUME NEW d \in Dates, NEW w \in Worth, RecordProduction(d, w) PROVE RecordsTypeOK'
  <2>1. [place |-> hand.home, worth |-> w] \in [place : Places, worth : Nat]
    BY DEF Hand
  <2> QED BY <1>4, <2>1 DEF RecordProduction
<1>5. ASSUME NEW d \in Dates, NEW w \in Worth, CorrectProduction(d, w) PROVE RecordsTypeOK'
  <2>1. PICK t \in [place : Places, worth : Nat] : t = made[d]
    BY <1>5 DEF CorrectProduction
  <2>2. [t EXCEPT !.worth = w] \in [place : Places, worth : Nat]
    BY <2>1
  <2>3. made' = [made EXCEPT ![d] = [t EXCEPT !.worth = w]]
    BY <1>5, <2>1, Zenon DEF CorrectProduction
  <2> QED BY <1>5, <2>2, <2>3 DEF CorrectProduction
<1>6. ASSUME NEW new \in [joined : 1 .. LastDay + 1, home : Places, kind : Compensation, monthly : MonthlyPay],
             SaveHand(new)
      PROVE  RecordsTypeOK'
  <2>1. new \in Hand
    BY DEF Hand
  <2> QED BY <1>6, <2>1 DEF SaveHand
<1>7. ASSUME NEW allowed \in SUBSET Places, CalculateSlip(allowed) \/ FinalizeSlip(allowed)
      PROVE  UNCHANGED <<hand, opened, present, made, changes>>
  BY <1>7 DEF CalculateSlip, FinalizeSlip
<1> QED
  BY <1>1, <1>2, <1>3, <1>4, <1>5, <1>6, <1>7 DEF PayslipsNext, slipVars

-----------------------------------------------------------------------------
(* The breakdown                                                           *)

\* Attendance since the joining date.
LEMMA SheetsRead ==
    ASSUME RecordsTypeOK, hand.kind # "piece"
    PROVE  /\ DOMAIN Sheets(hand) = {d \in Since(hand) : present[d] # None}
           /\ \A d \in DOMAIN Sheets(hand) : Sheets(hand)[d] = present[d]
  BY DEF Sheets, Since

\* The days of a calendar carry the minutes, and where attendance was recorded
\* its location; they bring nothing.
LEMMA CalendarDays ==
    ASSUME RecordsTypeOK, hand.kind # "piece", NEW d \in Since(hand)
    PROVE  LET day == FixedDay(hand, Sheets(hand), d)
           IN  /\ day \in Day
               /\ day.worked = Minutes(d) /\ day.amount = 0
               /\ (present[d] # None => day.place = present[d].place)
<1>1. d \in Dates
  BY DaysSince DEF RecordsTypeOK
<1>2. CASE present[d] = None
  <2>1. FixedDay(hand, Sheets(hand), d) = [place |-> hand.home, worked |-> 0, amount |-> 0]
    BY <1>2, SheetsRead DEF FixedDay
  <2> QED BY <1>2, <2>1 DEF Day, Minutes, RecordsTypeOK, Hand
<1>3. CASE present[d] # None
  <2>1. PICK t \in [place : Places, worked : Nat] : t = present[d]
    BY <1>1, <1>3 DEF RecordsTypeOK
  <2>2. FixedDay(hand, Sheets(hand), d) = [place |-> t.place, worked |-> t.worked, amount |-> 0]
    BY <1>3, <2>1, SheetsRead DEF FixedDay
  <2> QED BY <1>3, <2>1, <2>2 DEF Day, Minutes
<1> QED BY <1>2, <1>3

LEMMA PieceDays ==
    ASSUME RecordsTypeOK, NEW d \in PieceDates(hand)
    PROVE  /\ d \in Since(hand) /\ made[d] # None
           /\ made[d] \in [place : Places, worth : Nat]
           /\ PieceBreakdown(hand)[d] = [place |-> made[d].place, worked |-> 0, amount |-> made[d].worth]
<1>1. d \in Since(hand) /\ made[d] # None
  BY DEF PieceDates, Since
<1>2. d \in Dates
  BY <1>1, DaysSince DEF RecordsTypeOK
<1> QED BY <1>1, <1>2 DEF PieceBreakdown, RecordsTypeOK

LEMMA EarnedIsNat ==
    ASSUME RecordsTypeOK, NEW d \in Dates
    PROVE  Earned[d] \in Nat
  BY DEF RecordsTypeOK, Earned

\* What the days bring is what was earned, when each date with an entry brings
\* that and every other date nothing.
LEMMA ProducedIsEarned ==
    ASSUME RecordsTypeOK, NEW days, DOMAIN days \subseteq Since(hand),
           PieceDates(hand) \subseteq DOMAIN days,
           \A d \in PieceDates(hand) : days[d].amount = made[d].worth,
           \A d \in DOMAIN days \ PieceDates(hand) : days[d].amount = 0
    PROVE  Produced(days) = SumOf(Earned, Since(hand))
<1> DEFINE S == Since(hand)
           P == PieceDates(hand)
           D == DOMAIN days
<1>1. S \subseteq Dates /\ IsFiniteSet(S) /\ IsFiniteSet(D) /\ IsFiniteSet(S \ D)
  BY DaysSince, DatesAreFinite DEF RecordsTypeOK
<1>2. \A d \in S : Earned[d] \in Int
  BY <1>1, EarnedIsNat
<1>3. \A d \in D : Amounts(days)[d] = Earned[d]
  <2> SUFFICES ASSUME NEW d \in D PROVE days[d].amount = Earned[d]
    BY DEF Amounts
  <2>1. d \in Dates
    BY <1>1
  <2>2. CASE d \in P
    BY <2>1, <2>2, PieceDays DEF Earned
  <2>3. CASE d \notin P
    <3>1. made[d] = None
      BY <2>3 DEF PieceDates, Since
    <3> QED BY <2>1, <2>3, <3>1 DEF Earned
  <2> QED BY <2>2, <2>3
<1>4. \A d \in S \ D : Earned[d] = 0
  <2> SUFFICES ASSUME NEW d \in S \ D PROVE Earned[d] = 0
    OBVIOUS
  <2>1. made[d] = None
    BY DEF PieceDates, Since
  <2> QED BY <1>1, <2>1 DEF Earned
<1>5. SumOf(Amounts(days), D) = SumOf(Earned, D)
  BY <1>1, <1>3, SumSame
<1>6. SumOf(Earned, S \ D) = 0
  BY <1>1, <1>4, SumZero
<1>7. SumOf(Earned, D \cup (S \ D)) = SumOf(Earned, D) + SumOf(Earned, S \ D)
  <2>1. D \cap (S \ D) = {} /\ \A d \in D \cup (S \ D) : Earned[d] \in Int
    BY <1>2
  <2> QED BY <1>1, <2>1, SumUnion
<1>8. D \cup (S \ D) = S /\ SumOf(Earned, D) \in Int
  BY <1>1, <1>2, SumType
<1>9. Produced(days) = SumOf(Amounts(days), D)
  BY DEF Produced, SumOf
<1>10. SumOf(Earned, S) = SumOf(Earned, D)
  <2> HIDE DEF S, D
  <2>1. SumOf(Earned, D \cup (S \ D)) = SumOf(Earned, S)
    BY <1>8
  <2>2. PICK n \in Int : n = SumOf(Earned, D)
    BY <1>8
  <2>3. SumOf(Earned, S) = n + 0
    BY <1>6, <1>7, <2>1, <2>2
  <2> QED BY <2>2, <2>3
<1> QED BY <1>5, <1>9, <1>10

-----------------------------------------------------------------------------
(* calculate_salary                                                        *)

\* The whole breakdown, for the three kinds of compensation.
LEMMA FixedMirrors ==
    ASSUME RecordsTypeOK, hand.kind = "fixed"
    PROVE  LET days == Breakdown(hand, Sheets(hand))
           IN  /\ DOMAIN days = Since(hand)
               /\ \A d \in Since(hand) :
                     /\ days[d] \in Day
                     /\ days[d].worked = Minutes(d)
                     /\ (present[d] # None => days[d].place = present[d].place)
               /\ Produced(days) = 0
<1> DEFINE days == Breakdown(hand, Sheets(hand))
<1>1. days = [d \in Since(hand) |-> FixedDay(hand, Sheets(hand), d)]
  BY DEF Breakdown, FixedBreakdown, Since
<1>2. \A d \in Since(hand) :
         /\ days[d] \in Day
         /\ days[d].worked = Minutes(d) /\ days[d].amount = 0
         /\ (present[d] # None => days[d].place = present[d].place)
  BY <1>1, CalendarDays
<1>3. Produced(days) = 0
  <2>1. IsFiniteSet(Since(hand))
    BY DaysSince, DatesAreFinite DEF RecordsTypeOK
  <2>2. DOMAIN days = Since(hand) /\ \A d \in Since(hand) : Amounts(days)[d] = 0
    BY <1>1, <1>2 DEF Amounts
  <2>3. SumOf(Amounts(days), Since(hand)) = 0
    BY <2>1, <2>2, SumZero
  <2>4. Produced(days) = SumOf(Amounts(days), DOMAIN days)
    BY DEF Produced, SumOf
  <2> QED BY <2>2, <2>3, <2>4
<1> QED BY <1>1, <1>2, <1>3

LEMMA PieceMirrors ==
    ASSUME RecordsTypeOK, hand.kind = "piece"
    PROVE  LET days == Breakdown(hand, Sheets(hand))
           IN  /\ DOMAIN days = PieceDates(hand)
               /\ \A d \in PieceDates(hand) : days[d] \in Day /\ days[d].place = made[d].place
               /\ Produced(days) = SumOf(Earned, Since(hand))
<1> DEFINE days == Breakdown(hand, Sheets(hand))
<1>1. days = PieceBreakdown(hand)
  BY DEF Breakdown
<1>2. DOMAIN days = PieceDates(hand)
  BY <1>1 DEF PieceBreakdown
<1>3. ASSUME NEW d \in PieceDates(hand)
      PROVE  days[d] \in Day /\ days[d].place = made[d].place /\ days[d].amount = made[d].worth
  <2>1. /\ made[d] \in [place : Places, worth : Nat]
        /\ days[d] = [place |-> made[d].place, worked |-> 0, amount |-> made[d].worth]
    BY <1>1, PieceDays
  <2> HIDE DEF days
  <2> QED BY <2>1 DEF Day
<1>4. PieceDates(hand) \subseteq Since(hand)
  BY PieceDays
<1>5. Produced(days) = SumOf(Earned, Since(hand))
  <2> HIDE DEF days
  <2> QED BY <1>2, <1>3, <1>4, ProducedIsEarned
<1> QED BY <1>2, <1>3, <1>5

LEMMA HybridMirrors ==
    ASSUME RecordsTypeOK, hand.kind = "hybrid", Mergeable(hand, Sheets(hand))
    PROVE  LET days == Breakdown(hand, Sheets(hand))
           IN  /\ DOMAIN days = Since(hand)
               /\ \A d \in Since(hand) :
                     /\ days[d] \in Day
                     /\ days[d].worked = Minutes(d)
                     /\ (present[d] # None => days[d].place = present[d].place)
                     /\ (made[d] # None => days[d].place = made[d].place)
               /\ Produced(days) = SumOf(Earned, Since(hand))
<1> DEFINE days == Breakdown(hand, Sheets(hand))
           F(d) == FixedDay(hand, Sheets(hand), d)
<1>1. days = [d \in Since(hand) |-> IF d \in PieceDates(hand)
                                    THEN [PieceBreakdown(hand)[d] EXCEPT !.worked = F(d).worked]
                                    ELSE F(d)]
  BY DEF Breakdown, HybridBreakdown, FixedBreakdown, PieceBreakdown, Since
<1>2. ASSUME NEW d \in PieceDates(hand)
      PROVE  days[d] = [place |-> made[d].place, worked |-> F(d).worked, amount |-> made[d].worth]
  <2> HIDE DEF F
  <2>1. d \in Since(hand)
    BY PieceDays
  <2>2. PICK r : r = [place |-> made[d].place, worked |-> 0, amount |-> made[d].worth]
    OBVIOUS
  <2>3. PieceBreakdown(hand)[d] = r
    BY <2>2, PieceDays
  <2>4. days[d] = [PieceBreakdown(hand)[d] EXCEPT !.worked = F(d).worked]
    BY <1>1, <2>1
  <2>5. days[d] = [r EXCEPT !.worked = F(d).worked]
    <3> HIDE DEF days
    <3> QED BY <2>3, <2>4
  <2> HIDE DEF days
  <2> QED BY <2>2, <2>5
<1>3. ASSUME NEW d \in Since(hand) \ PieceDates(hand)
      PROVE  days[d] = F(d) /\ made[d] = None
  BY <1>1 DEF PieceDates, Since
<1>4. ASSUME NEW d \in Since(hand)
      PROVE  /\ days[d] \in Day
             /\ days[d].worked = Minutes(d)
             /\ present[d] # None => days[d].place = present[d].place
             /\ made[d] # None => days[d].place = made[d].place
  <2>1. /\ F(d) \in Day /\ F(d).worked = Minutes(d)
        /\ present[d] # None => F(d).place = present[d].place
    BY CalendarDays
  <2>2. CASE d \in PieceDates(hand)
    <3>1. made[d] \in [place : Places, worth : Nat] /\ F(d).worked \in Nat
      BY <2>1, <2>2, PieceDays DEF Day
    <3>2. days[d] = [place |-> made[d].place, worked |-> F(d).worked, amount |-> made[d].worth]
      BY <2>2, <1>2
    <3>3. present[d] # None => made[d].place = present[d].place
      <4>1. present[d] # None => d \in DOMAIN Sheets(hand) /\ Sheets(hand)[d] = present[d]
        BY SheetsRead
      <4> QED BY <4>1, <2>2 DEF Mergeable
    <3> HIDE DEF days, F
    <3> QED BY <2>1, <3>1, <3>2, <3>3 DEF Day
  <2>3. CASE d \notin PieceDates(hand)
    BY <2>1, <2>3, <1>3
  <2> QED BY <2>2, <2>3
<1>5. DOMAIN days = Since(hand)
  BY <1>1
<1>6. Produced(days) = SumOf(Earned, Since(hand))
  <2>1. PieceDates(hand) \subseteq DOMAIN days
    BY <1>5, PieceDays
  <2>2. \A d \in PieceDates(hand) : days[d].amount = made[d].worth
    <3> SUFFICES ASSUME NEW d \in PieceDates(hand) PROVE days[d].amount = made[d].worth
      OBVIOUS
    <3>1. days[d] = [place |-> made[d].place, worked |-> F(d).worked, amount |-> made[d].worth]
      BY <1>2
    <3> HIDE DEF days, F
    <3> QED BY <3>1
  <2>3. \A d \in DOMAIN days \ PieceDates(hand) : days[d].amount = 0
    BY <1>3, <1>5, CalendarDays
  <2> HIDE DEF days
  <2> QED BY <1>5, <2>1, <2>2, <2>3, ProducedIsEarned
<1> QED BY <1>4, <1>5, <1>6

\* What a calculation saves: the days, with their locations, that the clean
\* methods let pass.
LEMMA CalculationMirrors ==
    ASSUME RecordsTypeOK, NEW allowed \in SUBSET Places, CalculateSlip(allowed)
    PROVE  slip' \in Slip /\ slip'.status = "calculated" /\ Mirrors(slip')
<1> DEFINE days == Breakdown(hand, Sheets(hand))
           P == Produced(days)
           E == SumOf(Earned, Since(hand))
<1>1. slip' = [status |-> "calculated", who |-> hand, days |-> days,
               places |-> Locations(hand, days), fixed |-> Monthly(hand), produced |-> P,
               gross |-> Monthly(hand) + P]
  BY DEF CalculateSlip
<1>2. hand.kind \in Compensation /\ Since(hand) \subseteq Dates
  BY DaysSince DEF RecordsTypeOK, Hand
<1>3. /\ DOMAIN days \subseteq Since(hand)
      /\ \A d \in DOMAIN days : days[d] \in Day
      /\ P = IF hand.kind = "fixed" THEN 0 ELSE E
      /\ hand.kind # "piece" => /\ DOMAIN days = Since(hand)
                                /\ \A d \in Since(hand) : days[d].worked = Minutes(d)
      /\ \A d \in DOMAIN days :
            /\ ((hand.kind # "piece" /\ present[d] # None) => days[d].place = present[d].place)
            /\ ((hand.kind # "fixed" /\ made[d] # None) => days[d].place = made[d].place)
  <2>1. CASE hand.kind = "fixed"
    BY <2>1, FixedMirrors
  <2>2. CASE hand.kind = "piece"
    BY <2>2, PieceMirrors, PieceDays
  <2>3. CASE hand.kind = "hybrid"
    <3>1. Mergeable(hand, Sheets(hand))
      BY <2>3 DEF CalculateSlip
    <3> QED BY <2>3, <3>1, HybridMirrors
  <2> QED BY <1>2, <2>1, <2>2, <2>3 DEF Compensation
<1>4. E \in Nat
  <2>1. IsFiniteSet(Since(hand)) /\ \A d \in Since(hand) : Earned[d] \in Int /\ Earned[d] >= 0
    BY <1>2, DatesAreFinite, EarnedIsNat
  <2> QED BY <2>1, SumType
<1>5. Monthly(hand) \in Nat
  BY DEF Monthly, RecordsTypeOK, Hand
<1>6. Locations(hand, days) \subseteq Places /\ \A d \in DOMAIN days : days[d].place \in Locations(hand, days)
  <2> HIDE DEF days
  <2> QED BY <1>3 DEF Locations, Day, RecordsTypeOK, Hand
<1>7. days \in [DOMAIN days -> Day] /\ DOMAIN days \subseteq Dates
  <2>1. days = [d \in DOMAIN days |-> days[d]]
    BY <1>2 DEF Breakdown, FixedBreakdown, PieceBreakdown, HybridBreakdown, Compensation
  <2> HIDE DEF days
  <2> QED BY <1>2, <1>3, <2>1
<1>8. P \in Nat
  BY <1>3, <1>4
<1>9. slip' \in Slip
  <2> HIDE DEF days, P
  <2>1. days \in UNION {[D -> Day] : D \in SUBSET Dates}
    BY <1>7
  <2> QED BY <1>1, <1>5, <1>6, <1>8, <2>1 DEF Slip, SalaryStatus, RecordsTypeOK
<1>10. Mirrors(slip')
  <2> HIDE DEF days, P
  <2>1. \A d \in DOMAIN days : d >= hand.joined
    BY <1>3 DEF Since
  <2>2. E = MapThenSumSet(LAMBDA d : Earned[d], Since(hand))
    BY DEF SumOf
  <2> HIDE DEF E
  <2> QED BY <1>1, <1>3, <1>6, <2>1, <2>2 DEF Mirrors
<1> QED BY <1>1, <1>9, <1>10

THEOREM PayslipsTypeCorrect == PayslipsSpec => []PayslipsTypeOK
<1>1. PayslipsInit => PayslipsTypeOK
  BY PayslipConstants DEF PayslipsInit, PayslipsTypeOK, RecordsTypeOK, Hand
<1>2. PayslipsTypeOK /\ [PayslipsNext]_slipVars => PayslipsTypeOK'
  <2> SUFFICES ASSUME PayslipsTypeOK, [PayslipsNext]_slipVars PROVE PayslipsTypeOK'
    OBVIOUS
  <2>1. RecordsTypeOK'
    BY RecordsKeepTypes DEF PayslipsTypeOK
  <2>2. CASE slip' = slip
    BY <2>1, <2>2 DEF PayslipsTypeOK
  <2>3. ASSUME NEW allowed \in SUBSET Places, CalculateSlip(allowed) PROVE PayslipsTypeOK'
    BY <2>1, <2>3, CalculationMirrors DEF PayslipsTypeOK
  <2>4. ASSUME NEW allowed \in SUBSET Places, FinalizeSlip(allowed) PROVE PayslipsTypeOK'
    <3>1. slip' \in Slip
      BY <2>4 DEF FinalizeSlip, PayslipsTypeOK, Slip, SalaryStatus
    <3> QED BY <2>1, <3>1 DEF PayslipsTypeOK
  <2> QED
    BY <2>2, <2>3, <2>4 DEF PayslipsNext, slipVars, OpenAttendance, RecordAttendance,
       CorrectSheet, RecordProduction, CorrectProduction, SaveHand, Changes
<1> QED BY <1>1, <1>2, PTL DEF PayslipsSpec

\* A salary that is calculated is attendance and production as they are then,
\* and a finalized one never changes (calculate_salary and finalize_salary
\* under the row of the employee, _hybrid_breakdown, the clean methods).
THEOREM SlipsAreTrue == PayslipsSpec => SlipsStand
<1> DEFINE Step ==
        /\ slip' # None
        /\ slip # None => slip.status = "calculated"
        /\ IF slip'.status = "calculated" THEN Mirrors(slip')
           ELSE slip # None /\ slip' = [slip EXCEPT !.status = "finalized"]
<1>1. PayslipsTypeOK /\ [PayslipsNext]_slipVars => [Step]_slip
  <2> SUFFICES ASSUME PayslipsTypeOK, [PayslipsNext]_slipVars, slip' # slip PROVE Step
    OBVIOUS
  <2>1. ASSUME NEW allowed \in SUBSET Places, CalculateSlip(allowed) PROVE Step
    <3>1. slip' \in Slip /\ slip'.status = "calculated" /\ Mirrors(slip')
      BY <2>1, CalculationMirrors DEF PayslipsTypeOK
    <3>2. slip # None => slip.status = "calculated"
      BY <2>1 DEF CalculateSlip
    <3> QED BY <3>1, <3>2, PayslipConstants
  <2>2. ASSUME NEW allowed \in SUBSET Places, FinalizeSlip(allowed) PROVE Step
    <3>1. /\ slip \in Slip /\ slip # None /\ slip.status = "calculated"
          /\ slip' = [slip EXCEPT !.status = "finalized"]
      BY <2>2 DEF FinalizeSlip, PayslipsTypeOK
    <3>2. slip' \in Slip /\ slip'.status = "finalized"
      BY <3>1 DEF Slip, SalaryStatus
    <3> QED BY <3>1, <3>2, PayslipConstants
  <2> QED
    BY <2>1, <2>2 DEF PayslipsNext, slipVars, OpenAttendance, RecordAttendance,
       CorrectSheet, RecordProduction, CorrectProduction, SaveHand, Changes
<1> QED BY <1>1, PayslipsTypeCorrect, PTL DEF PayslipsSpec, SlipsStand
=============================================================================
