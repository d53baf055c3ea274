--------------------------- MODULE PlatformProofs ---------------------------
(***************************************************************************)
(* Theorems about the platform: Subscriptions, Members and Catalog.        *)
(***************************************************************************)
EXTENDS Members, Catalog, SumTheorems

-----------------------------------------------------------------------------
(* The subscription.  What a payment may put back, the end of the period   *)
(* before it, was paid by an earlier one or was free.                      *)

SubscriptionTypes ==
    /\ today \in Nat /\ open \in BOOLEAN /\ copy \in BOOLEAN \cup {Nothing}
    /\ plan \in [Plans -> Plan] /\ sub \in Subscription
    /\ receipt \in Seq(Receipt)

BarredIsSuspended == barred => sub.status = "suspended"

\* The end of a period is free, or one of the first n payments brought it.
EndExplained(day, n) ==
    day \in free \/ \E k \in DOMAIN receipt : k < n /\ receipt[k].end = day

ReceiptSound(i) ==
    /\ receipt[i].end \in Nat
    /\ receipt[i].before = Nothing => receipt[i].start \in free
    /\ receipt[i].before # Nothing =>
          /\ EndExplained(receipt[i].before.end, i)
          /\ receipt[i].after # Nothing /\ receipt[i].after.status = "active"
    /\ ~ Standing(i) => receipt[i].reversedAt <= Reversals

PeriodsExplained ==
    /\ EndExplained(sub.end, Len(receipt) + 1)
    /\ \A i \in DOMAIN receipt : ReceiptSound(i)

SubscriptionInv ==
    SubscriptionTypes /\ BarredIsSuspended /\ PeriodsExplained /\ ReversalsUndo

LEMMA ReceiptFields ==
    ASSUME SubscriptionTypes, NEW i \in DOMAIN receipt
    PROVE  /\ receipt[i] \in Receipt /\ i \in 1 .. Len(receipt)
           /\ receipt[i].start \in Days /\ receipt[i].end \in Days
           /\ receipt[i].reversedAt \in Days
           /\ receipt[i].before # Nothing => receipt[i].before \in Subscription
           /\ receipt[i].after # Nothing => receipt[i].after \in Subscription
<1>1. receipt[i] \in Receipt /\ i \in 1 .. Len(receipt)
  BY DEF SubscriptionTypes
<1> QED BY <1>1 DEF Receipt

LEMMA ReversalsCounted ==
    ASSUME SubscriptionTypes
    PROVE  Reversals \in Nat /\ IsFiniteSet({i \in DOMAIN receipt : receipt[i].reversedAt # Nothing})
<1>1. DOMAIN receipt = 1 .. Len(receipt) /\ Len(receipt) \in Nat
  BY DEF SubscriptionTypes
<1>2. IsFiniteSet(DOMAIN receipt)
  BY <1>1, FS_Interval
<1>3. IsFiniteSet({i \in DOMAIN receipt : receipt[i].reversedAt # Nothing})
  BY <1>2, FS_Subset
<1> QED BY <1>3, FS_CardinalityType DEF Reversals

\* What a new business starts with.
LEMMA SubscriptionInitially == SubscriptionsInit => SubscriptionInv
<1> SUFFICES ASSUME SubscriptionsInit PROVE SubscriptionInv
  OBVIOUS
<1> USE SubscriptionConstants
<1>1. plan \in [Plans -> Plan] /\ today = 0 /\ open = TRUE /\ copy = Nothing /\ barred = FALSE
  BY DEF SubscriptionsInit
<1>2. PICK p \in Plans :
        \/ /\ plan[p].on /\ sub = Fresh(p, plan[p])
           /\ receipt = <<>> /\ free = {Nothing}
        \/ /\ sub = [plan |-> p, status |-> "active", trialEnds |-> Nothing,
                     start |-> 0, end |-> 1]
           /\ receipt = << [start |-> 0, end |-> 1, before |-> Nothing, after |-> Nothing,
                            local |-> FALSE, reversedAt |-> Nothing] >>
           /\ free = {0}
  BY DEF SubscriptionsInit
<1>3. CASE sub = Fresh(p, plan[p]) /\ receipt = <<>> /\ free = {Nothing}
  <2>1. sub \in Subscription /\ sub.end = Nothing
    BY <1>1, <1>3 DEF Fresh, Subscription, SubscriptionStatus, Days, Plan
  <2>2. SubscriptionTypes
    BY <1>1, <1>3, <2>1 DEF SubscriptionTypes
  <2>3. DOMAIN receipt = {} /\ PeriodsExplained
    BY <1>3, <2>1 DEF PeriodsExplained, EndExplained
  <2>4. ReversalsUndo
    BY <1>3, <2>3 DEF ReversalsUndo, TakenBack
  <2> QED BY <1>1, <2>2, <2>3, <2>4 DEF SubscriptionInv, BarredIsSuspended
<1>4. CASE /\ sub = [plan |-> p, status |-> "active", trialEnds |-> Nothing,
                     start |-> 0, end |-> 1]
           /\ receipt = << [start |-> 0, end |-> 1, before |-> Nothing, after |-> Nothing,
                            local |-> FALSE, reversedAt |-> Nothing] >>
           /\ free = {0}
  <2>1. sub \in Subscription
    BY <1>4 DEF Subscription, SubscriptionStatus, Days
  <2> DEFINE r == [start |-> 0, end |-> 1, before |-> Nothing, after |-> Nothing,
                   local |-> FALSE, reversedAt |-> Nothing]
  <2>2. r \in Receipt
    BY DEF Receipt, Days
  <2>3. receipt \in Seq(Receipt) /\ DOMAIN receipt = {1} /\ Len(receipt) = 1 /\ receipt[1] = r
    BY <1>4, <2>2
  <2>4. SubscriptionTypes
    BY <1>1, <2>1, <2>3 DEF SubscriptionTypes
  <2>5. PeriodsExplained
    BY <1>4, <2>3 DEF PeriodsExplained, EndExplained, ReceiptSound, Standing
  <2>6. ReversalsUndo
    BY <1>4, <2>3 DEF ReversalsUndo, TakenBack, Standing
  <2> QED BY <1>1, <2>4, <2>5, <2>6 DEF SubscriptionInv, BarredIsSuspended
<1> QED BY <1>2, <1>3, <1>4

-----------------------------------------------------------------------------
(* The steps, by what they do to periods and payments.                     *)

\* A step that leaves the end of the period and the payments.
KeepsPeriod == sub'.end = sub.end /\ UNCHANGED <<receipt, free>>

\* One that gives a period for nothing, and one that is paid for.
GivesPeriod == sub'.end \in Nat /\ Unpaid(sub'.end)
SellsPeriod(local) ==
    sub'.end \in Nat /\ sub'.status = "active" /\ PaidFor(sub, sub', local)

LEMMA DayArithmetic ==
    ASSUME SubscriptionTypes
    PROVE  /\ RenewalStart \in Nat
           /\ \A day \in Days : Later(day) \in Nat
           /\ sub.plan \in Plans /\ sub.status \in SubscriptionStatus
           /\ sub.trialEnds \in Days /\ sub.start \in Days /\ sub.end \in Days
  BY SubscriptionConstants
     DEF SubscriptionTypes, RenewalStart, Later, Past, Subscription, Days

\* What every action but a reversal does.
LEMMA PlatformSteps ==
    ASSUME SubscriptionInv, SubscriptionsNext
    PROVE  /\ today' \in Nat /\ open' \in BOOLEAN /\ copy' \in BOOLEAN \cup {Nothing}
           /\ plan' \in [Plans -> Plan]
           /\ \/ \E i \in DOMAIN receipt : ReversePayment(i)
              \/ /\ sub' \in Subscription /\ BarredIsSuspended'
                 /\ \/ KeepsPeriod \/ GivesPeriod
                    \/ \E local \in BOOLEAN : SellsPeriod(local)
<1> USE SubscriptionConstants
<1>0. SubscriptionTypes /\ BarredIsSuspended
  BY DEF SubscriptionInv
<1> DEFINE Rest == /\ today' \in Nat /\ open' \in BOOLEAN /\ copy' \in BOOLEAN \cup {Nothing}
                   /\ plan' \in [Plans -> Plan]
           Kind == \/ KeepsPeriod \/ GivesPeriod
                   \/ \E local \in BOOLEAN : SellsPeriod(local)
           Good == Rest /\ sub' \in Subscription /\ BarredIsSuspended' /\ Kind
<1>1. sub = [plan |-> sub.plan, status |-> sub.status, trialEnds |-> sub.trialEnds,
             start |-> sub.start, end |-> sub.end]
  BY <1>0 DEF SubscriptionTypes, Subscription
<1>2. ASSUME Suspend PROVE Good
  BY <1>0, <1>1, <1>2, DayArithmetic
     DEF Suspend, KeepsPeriod, SubscriptionTypes, Subscription, SubscriptionStatus, BarredIsSuspended
<1>3. ASSUME Activate PROVE Good
  <2>1. Rest /\ barred' = FALSE
    BY <1>0, <1>3 DEF Activate, SubscriptionTypes
  <2>2. CASE UNCHANGED <<sub, receipt, free>>
    BY <1>0, <2>1, <2>2 DEF KeepsPeriod, SubscriptionTypes, BarredIsSuspended
  <2>3. CASE sub' = [sub EXCEPT !.status = "active"] /\ UNCHANGED <<receipt, free>>
    BY <1>0, <1>1, <2>1, <2>3, DayArithmetic
       DEF KeepsPeriod, Subscription, SubscriptionStatus, BarredIsSuspended
  <2>4. CASE /\ sub' = [sub EXCEPT !.status = "active", !.start = today,
                                   !.end = today + ActivationDays]
             /\ Unpaid(sub'.end)
    <3>1. today + ActivationDays \in Nat
      BY <1>0 DEF SubscriptionTypes
    <3>2. sub' \in Subscription /\ sub'.end = today + ActivationDays
      BY <1>0, <1>1, <2>4, <3>1, DayArithmetic
         DEF SubscriptionTypes, Subscription, SubscriptionStatus, Days
    <3> QED BY <2>1, <2>4, <3>1, <3>2 DEF GivesPeriod, BarredIsSuspended
  <2> QED BY <1>3, <2>2, <2>3, <2>4 DEF Activate
<1>4. ASSUME Renew PROVE Good
  <2>1. PICK p \in Offered, period \in Periods :
           /\ sub' = [plan |-> p, status |-> "active", trialEnds |-> Nothing,
                      start |-> period.start, end |-> period.end]
           /\ open' = TRUE /\ barred' = FALSE
           /\ PaidFor(sub, sub', ~ SameZone)
           /\ UNCHANGED <<today, plan, expiryMode, copy>>
    BY <1>4 DEF Renew
  <2>c. period \in {[start |-> s, end |-> s + days] : s \in {RenewalStart, today}, days \in Terms}
    BY DEF Periods
  <2>a. PICK s \in {RenewalStart, today}, days \in Terms :
           period = [start |-> s, end |-> s + days]
    BY <2>c
  <2>b. s \in Nat /\ days \in Nat
    BY <1>0, DayArithmetic DEF SubscriptionTypes
  <2>2. period.start \in Nat /\ period.end \in Nat /\ p \in Plans
    BY <2>a, <2>b DEF Offered
  <2>3. sub' \in Subscription /\ sub'.end \in Nat /\ sub'.status = "active"
    BY <2>1, <2>2 DEF Subscription, SubscriptionStatus, Days
  <2> QED BY <1>0, <2>1, <2>3 DEF SubscriptionTypes, BarredIsSuspended, SellsPeriod
<1>5. ASSUME ChangePlan PROVE Good
  BY <1>0, <1>1, <1>5, DayArithmetic, SMTT(30)
     DEF ChangePlan, Offered, KeepsPeriod, SubscriptionTypes, Subscription, BarredIsSuspended
<1>6. ASSUME Extend PROVE Good
  <2>1. PICK p \in Offered \cup {sub.plan}, days \in Terms :
           /\ sub' = [sub EXCEPT !.plan = p, !.status = "active", !.start = today,
                                 !.end = Later(sub.end) + days]
           /\ barred' = FALSE
           /\ PaidFor(sub, sub', FALSE) \/ Unpaid(sub'.end)
           /\ UNCHANGED <<today, plan, expiryMode, open, copy>>
    BY <1>6 DEF Extend
  <2>2. p \in Plans /\ Later(sub.end) + days \in Nat
    BY <1>0, DayArithmetic DEF Offered
  <2>3. sub' \in Subscription /\ sub'.end \in Nat /\ sub'.status = "active"
    BY <1>0, <1>1, <2>1, <2>2, DayArithmetic
       DEF SubscriptionTypes, Subscription, SubscriptionStatus, Days
  <2> QED BY <1>0, <2>1, <2>3
          DEF SubscriptionTypes, BarredIsSuspended, SellsPeriod, GivesPeriod
<1>7. ASSUME ExtendTrial PROVE Good
  <2>1. PICK days \in Terms :
           /\ sub' = [sub EXCEPT !.status = "trial", !.trialEnds = Later(sub.trialEnds) + days]
           /\ barred' = FALSE
           /\ UNCHANGED <<today, plan, expiryMode, open, copy, receipt, free>>
    BY <1>7 DEF ExtendTrial
  <2>2. Later(sub.trialEnds) + days \in Nat
    BY <1>0, DayArithmetic
  <2>3. sub' \in Subscription /\ sub'.end = sub.end
    BY <1>0, <1>1, <2>1, <2>2, DayArithmetic DEF Subscription, SubscriptionStatus, Days
  <2> QED BY <1>0, <2>1, <2>3 DEF SubscriptionTypes, BarredIsSuspended, KeepsPeriod
<1>8. ASSUME SavePlan \/ SaveExpiryMode \/ OpenProfile \/ SaveProfile \/ NextDay PROVE Good
  <2>1. UNCHANGED <<sub, barred, receipt, free>>
    BY <1>8 DEF SavePlan, SaveExpiryMode, OpenProfile, SaveProfile, NextDay
  <2>a. SavePlan => Rest
    BY <1>0 DEF SubscriptionTypes, SavePlan
  <2>b. SaveExpiryMode \/ OpenProfile => Rest
    BY <1>0 DEF SubscriptionTypes, SaveExpiryMode, OpenProfile
  <2>c. SaveProfile => Rest
    BY <1>0 DEF SubscriptionTypes, SaveProfile
  <2>d. NextDay => Rest
    BY <1>0 DEF SubscriptionTypes, NextDay
  <2>2. Rest
    BY <1>8, <2>a, <2>b, <2>c, <2>d
  <2> QED BY <1>0, <2>1, <2>2 DEF KeepsPeriod, SubscriptionTypes, BarredIsSuspended
<1>9. ASSUME NEW i \in DOMAIN receipt, ReversePayment(i) PROVE Rest
  BY <1>0, <1>9 DEF ReversePayment, SubscriptionTypes
<1> QED BY <1>2, <1>3, <1>4, <1>5, <1>6, <1>7, <1>8, <1>9 DEF SubscriptionsNext

\* What the steps other than a reversal have in common.
Accepted ==
    /\ today' \in Nat /\ open' \in BOOLEAN /\ copy' \in BOOLEAN \cup {Nothing}
    /\ plan' \in [Plans -> Plan] /\ sub' \in Subscription /\ BarredIsSuspended'

LEMMA PeriodKept ==
    ASSUME SubscriptionInv, Accepted, KeepsPeriod PROVE SubscriptionInv'
<1>1. SubscriptionTypes'
  BY DEF SubscriptionInv, SubscriptionTypes, Accepted, KeepsPeriod
<1>2. PeriodsExplained'
  BY DEF SubscriptionInv, PeriodsExplained, EndExplained, ReceiptSound, Standing, Reversals,
         KeepsPeriod
<1>3. ReversalsUndo'
  BY DEF SubscriptionInv, ReversalsUndo, TakenBack, Standing, KeepsPeriod
<1> QED BY <1>1, <1>2, <1>3 DEF SubscriptionInv, Accepted

LEMMA PeriodGiven ==
    ASSUME SubscriptionInv, Accepted, GivesPeriod PROVE SubscriptionInv'
<1>1. SubscriptionTypes'
  BY DEF SubscriptionInv, SubscriptionTypes, Accepted, GivesPeriod, Unpaid
<1>2. sub'.end \in free' /\ free \subseteq free' /\ receipt' = receipt
  BY DEF GivesPeriod, Unpaid
<1>3. PeriodsExplained'
  BY <1>2 DEF SubscriptionInv, PeriodsExplained, EndExplained, ReceiptSound, Standing, Reversals
<1>4. ReversalsUndo'
  BY <1>2 DEF ReversalsUndo, TakenBack
<1> QED BY <1>1, <1>3, <1>4 DEF SubscriptionInv, Accepted

LEMMA PeriodSold ==
    ASSUME SubscriptionInv, Accepted, NEW local \in BOOLEAN, SellsPeriod(local)
    PROVE  SubscriptionInv'
<1> USE SubscriptionConstants
<1>0. PICK n : n = Len(receipt) + 1
  OBVIOUS
<1> DEFINE r == [start |-> sub'.start, end |-> sub'.end, before |-> sub,
                 after |-> sub', local |-> local, reversedAt |-> Nothing]
<1>1. SubscriptionTypes /\ sub \in Subscription /\ Len(receipt) \in Nat /\ n \in Nat
  BY <1>0 DEF SubscriptionInv, SubscriptionTypes
<1>2. receipt' = Append(receipt, r) /\ free' = free
  BY DEF SellsPeriod, PaidFor
<1>3. r \in Receipt
  BY <1>1 DEF Receipt, Accepted, Subscription, Days
<1>4. /\ receipt' \in Seq(Receipt) /\ Len(receipt') = n
      /\ DOMAIN receipt = 1 .. Len(receipt) /\ DOMAIN receipt' = 1 .. n
      /\ receipt'[n] = r /\ \A i \in DOMAIN receipt : receipt'[i] = receipt[i]
  BY <1>0, <1>1, <1>2, <1>3 DEF SubscriptionTypes
<1>5. SubscriptionTypes'
  BY <1>4 DEF Accepted, SubscriptionTypes
<1>6. Reversals' = Reversals
  <2>1. {i \in DOMAIN receipt' : receipt'[i].reversedAt # Nothing}
           = {i \in DOMAIN receipt : receipt[i].reversedAt # Nothing}
    BY <1>0, <1>1, <1>4
  <2> QED BY <2>1 DEF Reversals
<1>7. ASSUME NEW day, NEW m \in 1 .. n, EndExplained(day, m) PROVE EndExplained(day, m)'
  BY <1>0, <1>1, <1>2, <1>4, <1>7 DEF EndExplained
<1>8. ASSUME NEW i \in DOMAIN receipt PROVE ReceiptSound(i)'
  <2>1. i \in 1 .. n /\ ReceiptSound(i) /\ receipt'[i] = receipt[i]
    BY <1>0, <1>1, <1>4 DEF SubscriptionInv, PeriodsExplained
  <2>2. PICK day : day = receipt[i].before.end
    OBVIOUS
  <2>3. receipt[i].before # Nothing => EndExplained(day, i)'
    BY <1>7, <2>1, <2>2 DEF ReceiptSound
  <2>4. receipt'[i].before # Nothing => EndExplained(receipt[i].before.end, i)'
    BY <2>1, <2>2, <2>3 DEF EndExplained
  <2> QED BY <1>2, <1>6, <2>1, <2>4 DEF ReceiptSound, Standing
<1>9. ReceiptSound(n)'
  <2>1. PICK day : day = sub.end
    OBVIOUS
  <2>2. EndExplained(day, n)'
    BY <1>0, <1>1, <1>7, <2>1 DEF SubscriptionInv, PeriodsExplained
  <2>3. /\ receipt'[n].end = sub'.end /\ receipt'[n].before = sub /\ receipt'[n].after = sub'
        /\ receipt'[n].reversedAt = Nothing
    BY <1>4
  <2>4. EndExplained(receipt[n].before.end, n)'
    BY <2>1, <2>2, <2>3 DEF EndExplained
  <2>5. sub # Nothing /\ sub' # Nothing
    BY <1>1 DEF Accepted
  <2> QED
    BY <2>3, <2>4, <2>5 DEF ReceiptSound, Standing, SellsPeriod
<1>10. PeriodsExplained'
  <2>1. EndExplained(sub.end, n + 1)'
    BY <1>0, <1>1, <1>4 DEF EndExplained
  <2>2. \A i \in DOMAIN receipt' : ReceiptSound(i)'
    BY <1>0, <1>1, <1>4, <1>8, <1>9
  <2> QED BY <1>4, <2>1, <2>2 DEF PeriodsExplained, EndExplained
<1>11. ReversalsUndo'
  <2>1. n \in DOMAIN receipt' /\ receipt'[n].end = sub'.end /\ Standing(n)'
    BY <1>0, <1>1, <1>4 DEF Standing
  <2> QED BY <2>1 DEF ReversalsUndo, TakenBack, Standing
<1> QED BY <1>5, <1>10, <1>11 DEF SubscriptionInv, Accepted

\* The payment that a fall-back turns to stands, if one stands besides i.
LEMMA LatestIsStanding ==
    ASSUME SubscriptionTypes, NEW i \in DOMAIN receipt,
           \A j \in DOMAIN receipt : receipt[j].end \in Nat,
           LatestStanding(i) # Nothing
    PROVE  /\ LatestStanding(i) \in DOMAIN receipt \ {i}
           /\ Standing(LatestStanding(i))
<1> DEFINE others == {j \in DOMAIN receipt \ {i} : Standing(j)}
           Last(j) == \A k \in others : \/ receipt[k].end < receipt[j].end
                                        \/ receipt[k].end = receipt[j].end /\ k <= j
<1>1. others # {} /\ LatestStanding(i) = CHOOSE j \in others : Last(j)
  BY DEF LatestStanding
<1>2. DOMAIN receipt = 1 .. Len(receipt) /\ Len(receipt) \in Nat
  BY DEF SubscriptionTypes
<1>3. IsFiniteSet(others)
  <2>1. IsFiniteSet(DOMAIN receipt)
    BY <1>2, FS_Interval
  <2> QED BY <2>1, FS_Subset
<1>4. \A j \in others : j \in Nat /\ receipt[j].end \in Nat
  BY <1>2
<1>5. PICK R : R = {p \in others \X others :
                       \/ receipt[p[1]].end < receipt[p[2]].end
                       \/ receipt[p[1]].end = receipt[p[2]].end /\ p[1] < p[2]}
  OBVIOUS
<1>6. \A x, y \in others : <<x, y>> \in R <=>
         \/ receipt[x].end < receipt[y].end
         \/ receipt[x].end = receipt[y].end /\ x < y
  BY <1>5
<1> HIDE DEF others
<1>7. \A x, y, z \in others : <<x, y>> \in R /\ <<y, z>> \in R => <<x, z>> \in R
  BY <1>4, <1>6
<1>8. \A x \in others : <<x, x>> \notin R
  BY <1>4, <1>6
<1>9. PICK x \in others : \A y \in others : <<x, y>> \notin R
  <2> HIDE <1>5
  <2> QED BY <1>1, <1>3, <1>7, <1>8, FiniteHasMaximal, Zenon
<1>10. ASSUME NEW k \in others
       PROVE  receipt[k].end < receipt[x].end \/ (receipt[k].end = receipt[x].end /\ k <= x)
  <2>1. ~ (receipt[x].end < receipt[k].end \/ (receipt[x].end = receipt[k].end /\ x < k))
    BY <1>6, <1>9
  <2>2. k \in Nat /\ x \in Nat /\ receipt[k].end \in Nat /\ receipt[x].end \in Nat
    BY <1>4
  <2> QED BY <2>1, <2>2
<1>11. LatestStanding(i) \in others
  BY <1>1, <1>10
<1> QED BY <1>11 DEF others

LEMMA PeriodReversed ==
    ASSUME SubscriptionInv, NEW i \in DOMAIN receipt, ReversePayment(i)
    PROVE  SubscriptionInv'
<1> USE SubscriptionConstants
<1>0. PICK m : m = Reversals + 1
  OBVIOUS
<1>1. SubscriptionTypes /\ sub \in Subscription /\ m \in Nat /\ Reversals \in Nat /\ m > Reversals
  BY <1>0, ReversalsCounted DEF SubscriptionInv, SubscriptionTypes
<1>2. /\ Standing(i) /\ receipt' = [receipt EXCEPT ![i].reversedAt = m]
      /\ UNCHANGED <<today, plan, open, copy, barred, free>>
      /\ sub' = IF receipt[i].end # sub.end THEN sub
                ELSE IF receipt[i].before # Nothing THEN Restored(i) ELSE FallBack(i)
  BY <1>0 DEF ReversePayment
<1>3. /\ \A k \in DOMAIN receipt :
            /\ receipt'[k].start = receipt[k].start /\ receipt'[k].end = receipt[k].end
            /\ receipt'[k].before = receipt[k].before /\ receipt'[k].after = receipt[k].after
            /\ k # i => receipt'[k].reversedAt = receipt[k].reversedAt
      /\ receipt'[i].reversedAt = m /\ DOMAIN receipt' = DOMAIN receipt
      /\ DOMAIN receipt = 1 .. Len(receipt) /\ Len(receipt) \in Nat /\ Len(receipt') = Len(receipt)
      /\ receipt' \in Seq(Receipt)
  <2>1. [receipt[i] EXCEPT !.reversedAt = m] \in Receipt
    BY <1>1, ReceiptFields DEF Receipt, Days
  <2>2. receipt' = [receipt EXCEPT ![i] = [receipt[i] EXCEPT !.reversedAt = m]]
    BY <1>2
  <2>3. receipt \in Seq(Receipt) /\ receipt[i] \in Receipt
    BY <1>1, ReceiptFields DEF SubscriptionTypes
  <2>4. /\ receipt' \in Seq(Receipt) /\ DOMAIN receipt' = DOMAIN receipt
        /\ DOMAIN receipt = 1 .. Len(receipt) /\ Len(receipt) \in Nat
        /\ Len(receipt') = Len(receipt)
    BY <2>1, <2>2, <2>3
  <2>5. /\ receipt'[i] = [receipt[i] EXCEPT !.reversedAt = m]
        /\ \A k \in DOMAIN receipt : k # i => receipt'[k] = receipt[k]
    BY <2>2, <2>3
  <2> QED BY <2>3, <2>4, <2>5 DEF Receipt
<1>4. Reversals' = m
  <2> DEFINE S == {k \in DOMAIN receipt : receipt[k].reversedAt # Nothing}
  <2>1. {k \in DOMAIN receipt' : receipt'[k].reversedAt # Nothing} = S \cup {i}
    BY <1>1, <1>3
  <2>2. IsFiniteSet(S) /\ i \notin S
    BY <1>1, <1>2, ReversalsCounted DEF Standing
  <2>3. Cardinality(S \cup {i}) = Cardinality(S) + 1
    BY <2>2, FS_AddElement
  <2> QED BY <1>0, <2>1, <2>3 DEF Reversals
<1>5. \A k \in DOMAIN receipt : ReceiptSound(k) /\ receipt[k].end \in Nat
  BY DEF SubscriptionInv, PeriodsExplained, ReceiptSound
<1>6. receipt[i] \in Receipt /\ i \in Nat
  BY <1>1, <1>3, ReceiptFields
<1>7. \A x \in Subscription \cup Receipt :
         /\ PeriodOf(x).end = x.end /\ PeriodOf(x).status = sub.status
         /\ PeriodOf(x) \in Subscription
  BY <1>1 DEF PeriodOf, Subscription, Receipt
<1> DEFINE Goal == /\ sub' \in Subscription /\ BarredIsSuspended' /\ ReversalsUndo'
                   /\ EndExplained(sub.end, Len(receipt) + 1)'
\* Another period is in force: everything stays.
<1>8. ASSUME receipt[i].end # sub.end PROVE Goal
  <2>1. sub' = sub
    BY <1>2, <1>8
  <2>2. EndExplained(sub.end, Len(receipt) + 1)'
    BY <1>2, <1>3, <2>1 DEF SubscriptionInv, PeriodsExplained, EndExplained
  <2>3. BarredIsSuspended'
    BY <1>2, <2>1 DEF SubscriptionInv, BarredIsSuspended
  <2>4. ReversalsUndo'
    <3> SUFFICES ASSUME TakenBack' # {}
                 PROVE  \E a \in TakenBack', j \in DOMAIN receipt' :
                           j > a /\ ~ Standing(j)' /\ receipt'[j].reversedAt > receipt'[a].reversedAt
      BY DEF ReversalsUndo, Standing
    <3>1. \A k \in DOMAIN receipt : receipt[k].end = sub.end =>
             k # i /\ receipt'[k].reversedAt = receipt[k].reversedAt
      BY <1>3, <1>8
    <3>a. PICK bought : bought = {k \in DOMAIN receipt : receipt[k].end = sub.end}
      OBVIOUS
    <3>b. bought = {k \in DOMAIN receipt' : receipt'[k].end = sub'.end}
      BY <1>3, <2>1, <3>a
    <3>c. \A k \in bought : receipt'[k].reversedAt = receipt[k].reversedAt
      BY <3>1, <3>a
    <3>d. TakenBack' = (IF sub.end \in free \/ \E k \in bought : receipt'[k].reversedAt = Nothing
                        THEN {} ELSE bought)
      BY <1>2, <2>1, <3>b DEF TakenBack, Standing
    <3>e. TakenBack = (IF sub.end \in free \/ \E k \in bought : receipt[k].reversedAt = Nothing
                       THEN {} ELSE bought)
      BY <3>a DEF TakenBack, Standing
    <3>2. /\ TakenBack' = {k \in DOMAIN receipt : receipt[k].end = sub.end}
          /\ TakenBack' = TakenBack
      BY <3>a, <3>c, <3>d, <3>e
    <3>3. PICK a \in TakenBack, j \in DOMAIN receipt :
             j > a /\ ~ Standing(j) /\ receipt[j].reversedAt > receipt[a].reversedAt
      BY <3>2 DEF SubscriptionInv, ReversalsUndo
    <3>4. j # i /\ a # i /\ a \in DOMAIN receipt
      BY <1>2, <3>1, <3>2, <3>3
    <3> QED BY <1>3, <3>2, <3>3, <3>4 DEF Standing
  <2> QED BY <1>1, <2>1, <2>2, <2>3, <2>4
\* The period before the payment comes back: if it was paid for, that payment
\* was reversed before this one, or it stands.
<1>9. ASSUME receipt[i].end = sub.end, receipt[i].before # Nothing PROVE Goal
  <2>1. receipt[i].before \in Subscription /\ receipt[i].after # Nothing
        /\ receipt[i].after.status = "active" /\ EndExplained(receipt[i].before.end, i)
    BY <1>1, <1>5, <1>9, ReceiptFields DEF ReceiptSound
  <2>2. sub' \in Subscription /\ sub'.end = receipt[i].before.end /\ BarredIsSuspended'
    BY <1>2, <1>7, <1>9, <2>1
       DEF Restored, StateMatches, SubscriptionInv, BarredIsSuspended
  <2>3. CASE sub'.end \in free
    BY <1>2, <2>2, <2>3 DEF EndExplained, ReversalsUndo, TakenBack
  <2>4. CASE \E k \in DOMAIN receipt : k < i /\ receipt[k].end = sub'.end
    <3>1. PICK k \in DOMAIN receipt : k < i /\ receipt[k].end = sub'.end
      BY <2>4
    <3>2. k \in DOMAIN receipt' /\ k < Len(receipt') + 1 /\ receipt'[k].end = sub'.end
          /\ k # i /\ receipt'[k].reversedAt = receipt[k].reversedAt
      BY <1>3, <3>1
    <3>3. EndExplained(sub.end, Len(receipt) + 1)'
      BY <3>2 DEF EndExplained
    <3>4. ReversalsUndo'
      <4> SUFFICES ASSUME TakenBack' # {}
                   PROVE  \E a \in TakenBack', j \in DOMAIN receipt' :
                             j > a /\ ~ Standing(j)' /\ receipt'[j].reversedAt > receipt'[a].reversedAt
        BY DEF ReversalsUndo, Standing
      <4>1. k \in TakenBack' /\ ~ Standing(k)'
        BY <3>2 DEF TakenBack, Standing
      <4>2. ~ Standing(k) /\ receipt[k].reversedAt <= Reversals /\ receipt[k].reversedAt \in Nat
        <5>1. ~ Standing(k)
          BY <3>2, <4>1 DEF Standing
        <5> QED BY <1>1, <1>5, <3>1, <5>1, ReceiptFields DEF ReceiptSound, Standing, Days
      <4>3. i > k /\ m > receipt[k].reversedAt /\ m # Nothing
        BY <1>1, <1>3, <3>1, <4>2
      <4> QED BY <1>3, <3>2, <4>1, <4>3 DEF Standing
    <3> QED BY <2>2, <3>3, <3>4
  <2> QED BY <2>1, <2>2, <2>3, <2>4 DEF EndExplained
\* A payment without snapshots falls back on one that stands, or on its start.
<1>10. ASSUME receipt[i].end = sub.end, receipt[i].before = Nothing PROVE Goal
  <2>1. sub' = FallBack(i) /\ receipt[i].start \in free
    BY <1>2, <1>5, <1>10 DEF ReceiptSound
  <2>2. BarredIsSuspended /\ BarredIsSuspended' = (barred => sub'.status = "suspended")
    BY <1>2 DEF SubscriptionInv, BarredIsSuspended
  <2>3. CASE LatestStanding(i) = Nothing
    <3>1. sub' \in Subscription /\ sub'.status = sub.status /\ sub'.end = receipt[i].start
      BY <1>1, <1>6, <2>1, <2>3, ZenonT(40) DEF FallBack, Subscription, Receipt, Days
    <3> QED BY <1>2, <2>1, <2>2, <3>1
            DEF BarredIsSuspended, EndExplained, ReversalsUndo, TakenBack
  <2>4. CASE LatestStanding(i) # Nothing
    <3>1. PICK j : j = LatestStanding(i)
      OBVIOUS
    <3>2. j \in DOMAIN receipt /\ j # i /\ Standing(j)
      BY <1>1, <1>5, <2>4, <3>1, LatestIsStanding
    <3>3. receipt[j] \in Receipt
      BY <1>1, <3>2, ReceiptFields
    <3>4. sub' \in Subscription /\ sub'.status = sub.status /\ sub'.end = receipt[j].end
      BY <1>7, <2>1, <2>4, <3>1, <3>3 DEF FallBack
    <3>5. j \in DOMAIN receipt' /\ receipt'[j].end = sub'.end /\ Standing(j)'
          /\ j < Len(receipt') + 1
      BY <1>3, <3>2, <3>4 DEF Standing
    <3> QED BY <2>2, <3>4, <3>5
            DEF BarredIsSuspended, EndExplained, ReversalsUndo, TakenBack, Standing
  <2> QED BY <2>3, <2>4
<1>11. Goal
  BY <1>8, <1>9, <1>10
<1>12. SubscriptionTypes'
  BY <1>1, <1>2, <1>3, <1>11 DEF SubscriptionTypes
<1>13. ASSUME NEW k \in DOMAIN receipt PROVE ReceiptSound(k)'
  <2>1. ReceiptSound(k)
    BY <1>5
  <2>2. \A day : EndExplained(day, k) => EndExplained(day, k)'
    BY <1>2, <1>3 DEF EndExplained
  <2>3. ~ Standing(k)' => receipt'[k].reversedAt <= m
    <3>1. CASE k = i
      BY <1>1, <1>3, <3>1
    <3>2. CASE k # i
      BY <1>1, <1>3, <2>1, <3>2, ReceiptFields DEF ReceiptSound, Standing, Days
    <3> QED BY <3>1, <3>2
  <2>4. EndExplained(receipt[k].before.end, k) => EndExplained(receipt[k].before.end, k)'
    BY <1>2, <1>3 DEF EndExplained
  <2> QED BY <1>2, <1>3, <1>4, <2>1, <2>3, <2>4 DEF ReceiptSound, Standing
<1>14. PeriodsExplained'
  BY <1>3, <1>11, <1>13 DEF PeriodsExplained
<1> QED BY <1>11, <1>12, <1>14 DEF SubscriptionInv

-----------------------------------------------------------------------------

SubscriptionSpec == SubscriptionsInit /\ [][SubscriptionsNext]_subscriptionVars

LEMMA SubscriptionStep ==
    ASSUME SubscriptionInv, [SubscriptionsNext]_subscriptionVars PROVE SubscriptionInv'
<1>1. CASE UNCHANGED subscriptionVars
  BY <1>1 DEF subscriptionVars, SubscriptionInv, SubscriptionTypes, BarredIsSuspended,
              PeriodsExplained, EndExplained, ReceiptSound, Standing, Reversals,
              ReversalsUndo, TakenBack
<1>2. CASE SubscriptionsNext
  BY <1>2, PlatformSteps, PeriodKept, PeriodGiven, PeriodSold, PeriodReversed DEF Accepted
<1> QED BY <1>1, <1>2

\* The inductive invariant: whoever was barred is suspended, and the period in
\* force and every period that a reversal may put back is free or was paid for
\* by an earlier payment.
THEOREM SubscriptionInvariant == SubscriptionSpec => []SubscriptionInv
<1>1. SubscriptionsInit => SubscriptionInv
  BY SubscriptionInitially
<1>2. SubscriptionInv /\ [SubscriptionsNext]_subscriptionVars => SubscriptionInv'
  BY SubscriptionStep
<1> QED BY <1>1, <1>2, PTL DEF SubscriptionSpec

\* Reversals in the order opposite to the payments leave nothing behind
\* (reverse_subscription_payment): for any plans, terms, days and number of
\* payments, with or without snapshots.
THEOREM ReversalsLeaveNothing == SubscriptionSpec => []ReversalsUndo
<1>1. SubscriptionInv => ReversalsUndo
  BY DEF SubscriptionInv
<1> QED BY <1>1, SubscriptionInvariant, PTL

\* Which guard refuses what, in every state of the right types.
LEMMA GuardsOfAState ==
    ASSUME SubscriptionTypes, BarredIsSuspended PROVE GuardsAgree
<1>1. SubscriptionMode \in {Denied, ReadOnly, Full}
  BY DEF SubscriptionMode
<1>2. AccessMode \in {Denied, ReadOnly, Full}
  BY <1>1 DEF AccessMode
<1>3. Denied # ReadOnly /\ Denied # Full /\ ReadOnly # Full
  BY DEF Denied, ReadOnly, Full
<1>4. AccessMode # Denied <=> open /\ plan[sub.plan].on /\ SubscriptionMode # Denied
  BY <1>1 DEF AccessMode
<1>5. SubscriptionMode = Full => EffectiveStatus \in {"trial", "active", "grace"}
  BY <1>3, SubscriptionConstants
     DEF SubscriptionMode, EffectiveStatus, Past, SubscriptionTypes, Subscription,
         SubscriptionStatus, Days
<1>6. sub.status # "trial" /\ EffectiveStatus \in {"trial", "active", "grace"} => SubscriptionMode = Full
  BY DEF SubscriptionMode, EffectiveStatus
<1>7. barred => EffectiveStatus = "suspended" /\ SubscriptionMode = Denied
  BY DEF BarredIsSuspended, EffectiveStatus, SubscriptionMode
<1>8. LetThrough(TRUE) <=> IsOperational
  BY DEF LetThrough
<1>9. barred => AccessMode = Denied /\ ~ LetThrough(TRUE)
  BY <1>7, <1>8 DEF AccessMode, IsOperational
<1>10. AccessMode = Full => LetThrough(TRUE)
  BY <1>3, <1>5, <1>8 DEF AccessMode, IsOperational
<1>11. LetThrough(TRUE) /\ plan[sub.plan].on /\ sub.status # "trial" => AccessMode = Full
  BY <1>6, <1>8 DEF AccessMode, IsOperational
<1>12. ASSUME NEW ms \in {EffectiveModules} \ {{}}
       PROVE  /\ Allowed(TRUE, ms) <=> CanWrite(ms)
              /\ Allowed(FALSE, ms) <=> PublicAllows(FALSE, ms)
              /\ ApiAllows(TRUE, ms) => LetThrough(TRUE)
  <2>1. Allowed(TRUE, ms) <=> AccessMode = Full
    BY <1>2, <1>3 DEF Allowed
  <2>2. CanWrite(ms) <=> AccessMode = Full
    BY DEF CanWrite
  <2>3. Allowed(FALSE, ms) <=> PublicAllows(FALSE, ms)
    BY <1>4 DEF Allowed, PublicAllows
  <2>4. ApiAllows(TRUE, ms) => AccessMode = Full
    BY <1>2 DEF ApiAllows, Allowed
  <2> QED BY <1>10, <2>1, <2>2, <2>3, <2>4
<1> QED BY <1>9, <1>10, <1>11, <1>12 DEF GuardsAgree

\* Nobody enters a suspended business, and the guards that were written apart
\* agree (the part of AccessIsEarned that is not about the modules of a plan).
THEOREM AccessGuardsAgree == SubscriptionSpec => []GuardsAgree
<1>1. SubscriptionInv => GuardsAgree
  BY GuardsOfAState DEF SubscriptionInv
<1> QED BY <1>1, SubscriptionInvariant, PTL

-----------------------------------------------------------------------------
(* The seats.  A request that has its seat holds the row of the business,   *)
(* so that the room it found there stays until it writes.                   *)

OwnerRow == [role |-> OwnerRole, active |-> TRUE]
Paying == ActiveMembers \ unseen

RequestSound(r) ==
    /\ r.row.role = OwnerRole => r.who = Owner
    /\ r.saw # Absent /\ r.saw.role = OwnerRole => r.saw = OwnerRow
    /\ r.kind = "edit" => r.saw # Absent

SeatSound(c) == request[c].seated =>
    /\ business = c /\ request[c].works
    /\ request[c].limit = 0 \/ Cardinality(Paying) < request[c].limit

SeatInv ==
    /\ SubscriptionTypes
    /\ member \in [Members -> Membership \cup {Absent}]
    /\ request \in [Clerks -> Request \cup {Absent}]
    /\ member[Owner] = OwnerRow
    /\ \A m \in Members \ {Owner} : member[m] # Absent => member[m].role # OwnerRole
    /\ \A c \in Clerks : request[c] # Absent => RequestSound(request[c]) /\ SeatSound(c)

MembersSpec == SubscriptionsInit /\ MembersInit /\ [][MembersNext]_<<memberVars, subscriptionVars>>

\* One step of SeatsAreBought.
BuysSeats ==
    /\ member'[Owner] = member[Owner]
    /\ \A m \in Members : IsActive(member'[m]) /\ ~ IsActive(member[m]) =>
          \E c \in Clerks :
             /\ request[c] # Absent /\ request[c].who = m
             /\ \/ IsActive(request[c].saw)
                \/ request[c].works
                   /\ (request[c].limit = 0
                       \/ Cardinality({x \in Members : IsActive(member'[x])} \ unseen')
                             <= request[c].limit)

LEMMA SeatsInitially == SubscriptionsInit /\ MembersInit => SeatInv
<1> SUFFICES ASSUME SubscriptionsInit, MembersInit PROVE SeatInv
  OBVIOUS
<1>1. SubscriptionTypes
  BY SubscriptionInitially DEF SubscriptionInv
<1> QED BY <1>1 DEF MembersInit, SeatInv, OwnerRow

\* The members that pay are finitely many.
LEMMA PayingIsFinite == IsFiniteSet(Paying) /\ Cardinality(Paying) \in Nat
<1>1. IsFiniteSet(Paying)
  BY MemberConstants, FS_Subset DEF Paying, ActiveMembers
<1> QED BY <1>1, FS_CardinalityType

LEMMA RequestFields ==
    ASSUME SeatInv, NEW c \in Clerks, request[c] # Absent
    PROVE  /\ request[c] \in Request /\ request[c].who \in Members
           /\ request[c].row \in Membership /\ request[c].limit \in Nat
           /\ request[c].saw \in Membership \cup {Absent}
           /\ RequestSound(request[c]) /\ SeatSound(c)
<1>1. request[c] \in Request
  BY DEF SeatInv
<1> QED BY <1>1 DEF Request, SeatInv

\* What the platform changes.
LEMMA RightsChange ==
    ASSUME SeatInv, ChangeRights, UNCHANGED memberVars
    PROVE  SeatInv'
<1> USE SubscriptionConstants
<1>1. SubscriptionTypes
  BY DEF SeatInv
<1>2. SubscriptionTypes'
  <2>1. CASE SavePlan
    BY <1>1, <2>1 DEF SavePlan, SubscriptionTypes
  <2>2. CASE ChangePlan
    BY <1>1, <2>2 DEF ChangePlan, Offered, SubscriptionTypes, Subscription
  <2>3. CASE Suspend
    BY <1>1, <2>3 DEF Suspend, SubscriptionTypes, Subscription, SubscriptionStatus
  <2>4. CASE Activate
    <3>1. sub \in Subscription /\ today + ActivationDays \in Nat /\ today \in Nat
      BY <1>1 DEF SubscriptionTypes
    <3>2. \A day, end \in Nat :
             /\ [sub EXCEPT !.status = "active"] \in Subscription
             /\ [sub EXCEPT !.status = "active", !.start = day, !.end = end] \in Subscription
      BY <3>1 DEF Subscription, SubscriptionStatus, Days
    <3>3. sub' \in Subscription
      <4>1. CASE sub.status # "suspended"
        BY <2>4, <3>1, <4>1 DEF Activate
      <4>2. CASE sub' = [sub EXCEPT !.status = "active"]
        BY <3>1, <3>2, <4>2
      <4>3. CASE sub' = [sub EXCEPT !.status = "active", !.start = today,
                                    !.end = today + ActivationDays]
        BY <3>1, <3>2, <4>3
      <4> QED BY <2>4, <4>1, <4>2, <4>3 DEF Activate
    <3> QED BY <1>1, <2>4, <3>3 DEF Activate, SubscriptionTypes, Unpaid
  <2> QED BY <2>1, <2>2, <2>3, <2>4 DEF ChangeRights
<1> QED BY <1>2 DEF SeatInv, memberVars, SeatSound, Paying, ActiveMembers

\* The three steps of a request.
LEMMA RequestOpened ==
    ASSUME SeatInv, NEW c \in Clerks, Open(c), UNCHANGED subscriptionVars
    PROVE  SeatInv'
<1>1. PICK kind \in {"create", "edit", "wms"}, m \in Members, role \in Roles, on \in BOOLEAN :
         Opened(c, kind, m, role, on)
  BY DEF Open
<1> DEFINE r == [kind |-> kind, who |-> m, row |-> [role |-> role, active |-> on],
                 saw |-> member[m], limit |-> plan[sub.plan].seats,
                 works |-> IsOperational, seated |-> FALSE]
<1>2. request' = [request EXCEPT ![c] = r] /\ UNCHANGED <<member, business, unseen>>
  BY <1>1 DEF Open, Opened
<1>3. r \in Request
  <2>1. plan[sub.plan].seats \in Nat
    BY DEF SeatInv, SubscriptionTypes, Subscription, Plan
  <2>2. IsOperational \in BOOLEAN
    BY DEF SeatInv, SubscriptionTypes, IsOperational
  <2> QED BY <2>1, <2>2 DEF SeatInv, Request, Membership
<1>4. RequestSound(r)
  BY <1>1 DEF Opened, ValidForm, RequestSound, SeatInv, OwnerRow
<1>5. SubscriptionTypes'
  BY DEF subscriptionVars, SeatInv, SubscriptionTypes
<1>6. \A d \in Clerks : request'[d] # Absent => RequestSound(request'[d]) /\ SeatSound(d)'
  <2> SUFFICES ASSUME NEW d \in Clerks, request'[d] # Absent
               PROVE  RequestSound(request'[d]) /\ SeatSound(d)'
    OBVIOUS
  <2>1. CASE d = c
    BY <1>2, <1>3, <1>4, <2>1 DEF SeatInv, SeatSound
  <2>2. CASE d # c
    BY <1>2, <2>2 DEF SeatInv, SeatSound, Paying, ActiveMembers
  <2> QED BY <2>1, <2>2
<1> QED BY <1>2, <1>3, <1>5, <1>6 DEF SeatInv, RequestSound

LEMMA SeatTaken ==
    ASSUME SeatInv, NEW c \in Clerks, TakeSeat(c), UNCHANGED subscriptionVars
    PROVE  SeatInv'
<1>1. SubscriptionTypes'
  BY DEF subscriptionVars, SeatInv, SubscriptionTypes
<1>2. request[c] # Absent /\ business = Nothing /\ UNCHANGED <<member, unseen>>
  BY DEF TakeSeat, LockBusiness
<1>3. request[c] \in Request /\ request[c].limit \in Nat /\ RequestSound(request[c])
  BY <1>2, RequestFields
<1>4. \A d \in Clerks : request[d] # Absent => ~ request[d].seated
  BY <1>2, MemberConstants DEF SeatInv, SeatSound
<1>5. CASE ~ HasRoom(request[c])
  <2>1. request' = [request EXCEPT ![c] = Absent] /\ UNCHANGED business
    BY <1>5 DEF TakeSeat
  <2> QED BY <1>1, <1>2, <1>4, <2>1 DEF SeatInv, RequestSound, SeatSound
<1>6. CASE HasRoom(request[c])
  <2>1. business' = c /\ request' = [request EXCEPT ![c].seated = TRUE]
    BY <1>6 DEF TakeSeat
  <2> DEFINE r == [request[c] EXCEPT !.seated = TRUE]
  <2>2. r \in Request /\ RequestSound(r) /\ request' = [request EXCEPT ![c] = r]
    BY <1>3, <2>1 DEF Request, RequestSound
  <2>3. r.works /\ (r.limit = 0 \/ Cardinality(Paying) < r.limit)
    <3>1. IsFiniteSet(ActiveMembers) /\ Cardinality(ActiveMembers) \in Nat
      BY MemberConstants, FS_Subset, FS_CardinalityType DEF ActiveMembers
    <3>2. Cardinality(Paying) <= Cardinality(ActiveMembers)
      BY <3>1, FS_Subset DEF Paying
    <3> QED BY <1>3, <1>6, <3>1, <3>2, PayingIsFinite DEF HasRoom, Request
  <2>4. Paying' = Paying
    BY <1>2 DEF Paying, ActiveMembers
  <2>5. \A d \in Clerks : request'[d] # Absent => RequestSound(request'[d]) /\ SeatSound(d)'
    <3> SUFFICES ASSUME NEW d \in Clerks, request'[d] # Absent
                 PROVE  RequestSound(request'[d]) /\ SeatSound(d)'
      OBVIOUS
    <3>1. CASE d = c
      BY <2>1, <2>2, <2>3, <2>4, <3>1 DEF SeatInv, SeatSound
    <3>2. CASE d # c
      BY <1>4, <2>2, <3>2 DEF SeatInv, SeatSound
    <3> QED BY <3>1, <3>2
  <2> QED BY <1>1, <1>2, <2>2, <2>5 DEF SeatInv, RequestSound
<1> QED BY <1>5, <1>6

\* What Finish writes: the owner's row stays, others keep away from his role.
LEMMA RowSaved ==
    ASSUME SeatInv, NEW c \in Clerks, request[c] # Absent
    PROVE  LET r == request[c]
           IN  /\ Saved(r) \in Membership \cup {Absent}
               /\ r.who = Owner => Saved(r) = OwnerRow
               /\ r.who # Owner /\ Saved(r) # Absent => Saved(r).role # OwnerRole
<1> DEFINE r == request[c]
<1>1. r \in Request /\ r.who \in Members /\ r.row \in Membership /\ RequestSound(r)
  BY RequestFields
<1>2. OwnerRow # Absent /\ OwnerRow.role = OwnerRole /\ member[Owner] = OwnerRow
  <2>1. OwnerRow \in Membership
    BY DEF OwnerRow, Membership, Roles
  <2> QED BY <2>1, MemberConstants DEF OwnerRow, SeatInv
<1>3. member[r.who] \in Membership \cup {Absent}
  BY <1>1 DEF SeatInv
<1>4. r.who # Owner /\ member[r.who] # Absent => member[r.who].role # OwnerRole
  BY <1>1 DEF SeatInv
<1> QED BY <1>1, <1>2, <1>3, <1>4 DEF Saved, RequestSound

LEMMA RequestFinished ==
    ASSUME SeatInv, NEW c \in Clerks, Finish(c), UNCHANGED subscriptionVars
    PROVE  SeatInv' /\ BuysSeats
<1> DEFINE r == request[c]
           w == request[c].who
<1>0. /\ request[c] # Absent /\ (TakesSeat(r) => r.seated)
      /\ member' = [member EXCEPT ![r.who] = Saved(r)]
      /\ request' = [request EXCEPT ![c] = Absent]
      /\ business' = IF business = c THEN Nothing ELSE business
  BY DEF Finish
<1>1. r \in Request /\ r.who \in Members /\ r.row \in Membership /\ RequestSound(r) /\ SeatSound(c)
      /\ r.limit \in Nat /\ r.saw \in Membership \cup {Absent}
  BY <1>0, RequestFields
<1>2. /\ Saved(r) \in Membership \cup {Absent} /\ (r.who = Owner => Saved(r) = OwnerRow)
      /\ r.who # Owner /\ Saved(r) # Absent => Saved(r).role # OwnerRole
  BY <1>0, RowSaved
<1>3. member' \in [Members -> Membership \cup {Absent}] /\ member'[r.who] = Saved(r)
      /\ \A m \in Members : m # r.who => member'[m] = member[m]
  BY <1>0, <1>1, <1>2 DEF SeatInv
<1> DEFINE again == ~ IsActive(member[r.who]) /\ IsActive(Saved(r)) /\ ~ TakesSeat(r)
<1>4. unseen' = (IF again THEN unseen \cup {r.who} ELSE unseen)
                   \ {m \in Members : ~ IsActive(member'[m])}
  BY DEF Finish
<1>5. SubscriptionTypes'
  BY DEF subscriptionVars, SeatInv, SubscriptionTypes
<1>6. member'[Owner] = OwnerRow /\ member[Owner] = OwnerRow
  BY <1>2, <1>3, MemberConstants DEF SeatInv
\* Only a request that takes a seat adds one that pays, namely its member.
<1>7. Paying' \subseteq Paying \cup {r.who}
  BY <1>3, <1>4 DEF Paying, ActiveMembers
<1>8. ~ TakesSeat(r) => Paying' \subseteq Paying
  BY <1>3, <1>4 DEF Paying, ActiveMembers
<1>9. Cardinality(Paying') <= Cardinality(Paying) + 1
      /\ (~ TakesSeat(r) => Cardinality(Paying') <= Cardinality(Paying))
      /\ Cardinality(Paying') \in Nat
  <2>1. IsFiniteSet(Paying) /\ Cardinality(Paying) \in Nat /\ IsFiniteSet(Paying \cup {r.who})
        /\ Cardinality(Paying \cup {r.who}) \in Nat
        /\ Cardinality(Paying \cup {r.who}) <= Cardinality(Paying) + 1
    <3>1. IsFiniteSet(Paying) /\ Cardinality(Paying) \in Nat
      BY PayingIsFinite
    <3>2. IsFiniteSet(Paying \cup {w})
          /\ Cardinality(Paying \cup {w})
                = IF w \in Paying THEN Cardinality(Paying) ELSE Cardinality(Paying) + 1
      BY <3>1, FS_AddElement
    <3>3. Cardinality(Paying \cup {w}) \in Nat
      BY <3>2, FS_CardinalityType
    <3> QED BY <3>1, <3>2, <3>3
  <2>2. Cardinality(Paying') <= Cardinality(Paying \cup {r.who}) /\ IsFiniteSet(Paying')
    BY <1>7, <2>1, FS_Subset
  <2>3. ~ TakesSeat(r) => Cardinality(Paying') <= Cardinality(Paying)
    BY <1>8, <2>1, FS_Subset
  <2>4. Cardinality(Paying') \in Nat
    BY <2>2, FS_CardinalityType
  <2> QED BY <2>1, <2>2, <2>3, <2>4
<1>10. ASSUME NEW d \in Clerks, request'[d] # Absent
       PROVE  RequestSound(request'[d]) /\ SeatSound(d)'
  <2>1. d # c /\ request'[d] = request[d] /\ request[d] # Absent
    BY <1>0, <1>10 DEF SeatInv
  <2>2. request[d].limit \in Nat /\ RequestSound(request[d]) /\ SeatSound(d)
    BY <2>1, RequestFields
  <2>3. ASSUME request[d].seated PROVE business = d /\ ~ TakesSeat(r)
    BY <1>0, <1>1, <2>1, <2>2, <2>3 DEF SeatSound
  <2>4. ASSUME request[d].seated
        PROVE  /\ business' = d /\ request[d].works
               /\ request[d].limit = 0 \/ Cardinality(Paying') < request[d].limit
    BY <1>0, <1>9, <2>1, <2>2, <2>3, <2>4, PayingIsFinite DEF SeatSound
  <2> QED BY <2>1, <2>2, <2>4 DEF SeatSound
<1>11. SeatInv'
  <2>1. request' \in [Clerks -> Request \cup {Absent}]
    BY <1>0 DEF SeatInv
  <2>2. \A m \in Members \ {Owner} : member'[m] # Absent => member'[m].role # OwnerRole
    BY <1>2, <1>3 DEF SeatInv
  <2> QED BY <1>3, <1>5, <1>6, <1>10, <2>1, <2>2 DEF SeatInv, RequestSound
<1>12. ASSUME NEW m \in Members, IsActive(member'[m]), ~ IsActive(member[m])
       PROVE  /\ r.who = m
              /\ \/ IsActive(r.saw)
                 \/ r.works /\ (r.limit = 0 \/ Cardinality(Paying') <= r.limit)
  <2>1. m = r.who /\ IsActive(Saved(r))
    BY <1>3, <1>12
  <2>2. CASE TakesSeat(r)
    BY <1>0, <1>1, <1>9, <2>1, <2>2, PayingIsFinite DEF SeatSound
  <2>3. CASE ~ TakesSeat(r)
    <3>1. Saved(r) = r.row /\ r.row.active
      BY <1>12, <2>1 DEF Saved, IsActive
    <3>2. r.kind = "edit" /\ (r.saw.active \/ r.saw.role = OwnerRole)
      BY <2>3, <3>1 DEF TakesSeat
    <3>3. r.saw # Absent /\ (r.saw.role = OwnerRole => r.saw.active)
      BY <1>1, <3>2 DEF RequestSound, OwnerRow
    <3> QED BY <2>1, <3>2, <3>3 DEF IsActive
  <2> QED BY <2>2, <2>3
<1>13. Paying' = {x \in Members : IsActive(member'[x])} \ unseen'
  BY DEF Paying, ActiveMembers
<1>14. BuysSeats
  BY <1>0, <1>6, <1>12, <1>13 DEF BuysSeats
<1> QED BY <1>11, <1>14

LEMMA SeatsStep ==
    ASSUME SeatInv, [MembersNext]_<<memberVars, subscriptionVars>>
    PROVE  SeatInv' /\ (BuysSeats \/ UNCHANGED <<memberVars, subscriptionVars>>)
<1>1. CASE UNCHANGED <<memberVars, subscriptionVars>>
  BY <1>1 DEF memberVars, subscriptionVars, SeatInv, SubscriptionTypes, RequestSound, SeatSound,
              Paying, ActiveMembers
<1>2. member' = member => BuysSeats
  BY DEF BuysSeats
<1>3. CASE ChangeRights /\ UNCHANGED memberVars
  BY <1>2, <1>3, RightsChange DEF memberVars
<1>4. ASSUME NEW c \in Clerks, Open(c) \/ TakeSeat(c) \/ Finish(c), UNCHANGED subscriptionVars
      PROVE  SeatInv' /\ BuysSeats
  <2>1. CASE Open(c)
    BY <1>2, <1>4, <2>1, RequestOpened DEF Open
  <2>2. CASE TakeSeat(c)
    BY <1>2, <1>4, <2>2, SeatTaken DEF TakeSeat
  <2>3. CASE Finish(c)
    BY <1>4, <2>3, RequestFinished
  <2> QED BY <1>4, <2>1, <2>2, <2>3
<1> QED BY <1>1, <1>3, <1>4 DEF MembersNext

\* The inductive invariant of the seats: a request with a seat holds the row of
\* the business, and the room it found is still there.
THEOREM SeatInvariant == MembersSpec => []SeatInv
<1>1. SubscriptionsInit /\ MembersInit => SeatInv
  BY SeatsInitially
<1>2. SeatInv /\ [MembersNext]_<<memberVars, subscriptionVars>> => SeatInv'
  BY SeatsStep
<1> QED BY <1>1, <1>2, PTL DEF MembersSpec

\* No member becomes active beyond the seats that the plan of its request sold
\* (_lock_and_check_user_seat), but for the requests that had read that it is
\* active, and the owner keeps its row: for any members, requests and plans.
THEOREM SeatsAreOnlyBought == MembersSpec => SeatsAreBought
<1>1. SeatInv /\ [MembersNext]_<<memberVars, subscriptionVars>>
         => [BuysSeats]_<<memberVars, subscriptionVars>>
  BY SeatsStep
<1> QED BY <1>1, SeatInvariant, PTL DEF MembersSpec, SeatsAreBought, BuysSeats

-----------------------------------------------------------------------------
(* The catalog.  Between deciding and inserting a request holds the row of  *)
(* its product, so that what it found there is still so when it inserts.   *)

Job == [op : {"form", "variant", "import"}, p : Products \cup {NoRow}, form : Product,
        old : Units \cup {NoRow}, shade : Shades \cup {NoRow}, vsku : Codes,
        v : Variants \cup {NoRow}, qty : {0, 1}, decided : BOOLEAN, vacant : SUBSET Codes]

CatalogTypes ==
    /\ product \in [Products -> Product \cup {NoRow}]
    /\ variant \in [Variants -> Variant \cup {NoRow}]
    /\ stock \in [Products \cup Variants -> Nat \cup {NoRow}]
    /\ moved \subseteq Products
    /\ job \in [Editors -> Job \cup {NoRow}]
    /\ locked \in [Products -> Editors \cup {NoRow}]

\* Stock, history and variants are of products that are there.
RowsHold ==
    /\ \A p \in Products : product[p] = NoRow => stock[p] = NoRow /\ p \notin moved
    /\ \A v \in VariantRows : product[variant[v].of] # NoRow

\* What a request wants that has only looked.
Looking(j) ==
    /\ j.v = NoRow
    /\ j.shade = NoRow => j.vsku = 0
    /\ j.op = "variant" =>
         j.p # NoRow /\ j.shade # NoRow /\ (j.vsku # 0 => j.vsku \in j.vacant)
    /\ j.op # "variant" /\ j.shade # NoRow => j.form.kind = "variant"
    /\ j.op = "form" /\ j.p # NoRow /\ j.form.sku # 0 => j.form.sku \in j.vacant

\* Product p may become row: the stock of Meter products lies with variants,
\* and what has history keeps its shape.
ShapeFits(p, row) ==
    /\ IsMeterTailoring(row) =>
         /\ row.kind = "variant" => OnHand(p) = 0
         /\ row.kind # "variant" => VariantsOf(p) = {}
    /\ product[p] # NoRow /\ (HasHistory(p) \/ VariantsOf(p) # {})
       /\ (IsMeter(product[p]) \/ IsMeter(row))
       => row.kind = product[p].kind /\ row.unit = product[p].unit

\* The variant v may be inserted for p.
VariantFits(p, v) == variant[v] = NoRow \/ variant[v].of = p

\* What a request has decided to insert, under the lock of its product.
Promised(e, j) ==
    /\ j.p \in Products /\ locked[j.p] = e
    /\ j.shade = NoRow <=> j.v = NoRow
    /\ j.shade # NoRow => j.form.kind = "variant"
    /\ ShapeFits(j.p, j.form)
    /\ NewCode(j.form, product[j.p]) => j.form.sku \in j.vacant
    /\ j.v # NoRow =>
         /\ VariantFits(j.p, j.v)
         /\ j.vsku # 0 /\ (variant[j.v] = NoRow \/ variant[j.v].sku # j.vsku)
            => j.vsku \in j.vacant

JobHolds(e, j) == IF j.decided THEN Promised(e, j) ELSE Looking(j)

JobsHold == \A e \in Editors : job[e] # NoRow => JobHolds(e, job[e])

VariantsDiffer == \A e, o \in Editors :
    e # o /\ job[e] # NoRow /\ job[o] # NoRow =>
        (job[e].v # NoRow => job[e].v # job[o].v)

CatalogInv ==
    /\ CatalogTypes /\ RowsHold /\ JobsHold /\ VariantsDiffer /\ MeterStockHasItsVariant

LEMMA ProductFields ==
    ASSUME CatalogTypes, NEW p \in Rows
    PROVE  /\ p \in Products /\ product[p] \in Product
           /\ product[p].name \in Names /\ product[p].sku \in Codes
           /\ product[p].kind \in Kinds /\ product[p].unit \in Units
<1>1. p \in Products /\ product[p] \in Product
  BY DEF CatalogTypes, Rows
<1> QED BY <1>1 DEF Product

LEMMA VariantFields ==
    ASSUME CatalogTypes, NEW v \in VariantRows
    PROVE  /\ v \in Variants /\ variant[v] \in Variant
           /\ variant[v].of \in Products /\ variant[v].shade \in Shades
           /\ variant[v].sku \in Codes
<1>1. v \in Variants /\ variant[v] \in Variant
  BY DEF CatalogTypes, VariantRows
<1> QED BY <1>1 DEF Variant

LEMMA JobFields ==
    ASSUME CatalogTypes, NEW e \in Editors, job[e] # NoRow
    PROVE  /\ job[e] \in Job
           /\ job[e].op \in {"form", "variant", "import"} /\ job[e].p \in Products \cup {NoRow}
           /\ job[e].form \in Product /\ job[e].old \in Units \cup {NoRow}
           /\ job[e].shade \in Shades \cup {NoRow} /\ job[e].vsku \in Codes
           /\ job[e].v \in Variants \cup {NoRow} /\ job[e].qty \in {0, 1}
           /\ job[e].decided \in BOOLEAN /\ job[e].vacant \in SUBSET Codes
<1>1. job[e] \in Job
  BY DEF CatalogTypes
<1> QED BY <1>1 DEF Job

LEMMA CodesInRange ==
    ASSUME CatalogTypes, NEW p
    PROVE  /\ CodesExcept(p) \subseteq Codes /\ VariantCodes \subseteq Codes
           /\ Vacant(p) \subseteq Codes /\ IsFiniteSet(Codes) /\ Codes \subseteq Nat
<1>1. CodesExcept(p) \subseteq Codes
  BY ProductFields DEF CodesExcept
<1>2. VariantCodes \subseteq Codes
  BY VariantFields DEF VariantCodes
<1>3. IsFiniteSet(Codes) /\ Codes \subseteq Nat
  <2>1. PICK n \in Nat : n = MaxCode
    BY CatalogConstants
  <2> QED BY <2>1, FS_Interval DEF Codes
<1> QED BY <1>1, <1>2, <1>3 DEF Vacant

\* A code that generate_sku makes up is larger than all it looked at.
LEMMA LargerThanAll ==
    ASSUME NEW S \in SUBSET Nat, IsFiniteSet(S), 0 \in S
    PROVE  LET next == 1 + CHOOSE n \in S : \A m \in S : m <= n
           IN  next \in Nat /\ next > 0 /\ next \notin S
<1>1. Max(S) \in S /\ \A m \in S : m <= Max(S)
  <2>1. S # {} /\ S \subseteq Int
    OBVIOUS
  <2> QED BY <2>1, FiniteHasMax
<1> DEFINE top == CHOOSE n \in S : \A m \in S : m <= n
<1>2. top \in S /\ \A m \in S : m <= top
  BY <1>1
<1> HIDE DEF top
<1>3. 1 + top \in Nat /\ 1 + top > 0 /\ 1 + top \notin S
  BY <1>2
<1> QED BY <1>3 DEF top

LEMMA MadeUpIsVacant ==
    ASSUME CatalogTypes, NEW p, NEW code \in Nat
    PROVE  /\ NextCode(p, code) \in Nat /\ NextCode(p, code) > 0
           /\ NextCode(p, code) <= MaxCode => NextCode(p, code) \in Vacant(p)
<1> DEFINE used == CodesExcept(p) \cup VariantCodes \cup {0, code}
<1>1. used \in SUBSET Nat /\ 0 \in used
  BY CodesInRange
<1>2. IsFiniteSet(used)
  <2>1. used \subseteq Codes \cup {0} \cup {code}
    BY CodesInRange
  <2>2. IsFiniteSet(Codes \cup {0} \cup {code})
    BY CodesInRange, FS_AddElement
  <2> QED BY <2>1, <2>2, FS_Subset
<1>3. NextCode(p, code) = 1 + CHOOSE n \in used : \A m \in used : m <= n
  BY DEF NextCode
<1> HIDE DEF used
<1>4. NextCode(p, code) \in Nat /\ NextCode(p, code) > 0 /\ NextCode(p, code) \notin used
  BY <1>1, <1>2, <1>3, LargerThanAll
<1>5. NextCode(p, code) <= MaxCode => NextCode(p, code) \in Codes
  BY <1>4, CatalogConstants DEF Codes
<1> QED BY <1>4, <1>5 DEF used, Vacant

\* A step that leaves product p, its variants and its stock alone.
LeavesAlone(p) ==
    /\ product'[p] = product[p] /\ stock'[p] = stock[p] /\ (p \in moved' <=> p \in moved)
    /\ \A v \in Variants :
          /\ variant[v] # NoRow /\ variant[v].of = p =>
                variant'[v] = variant[v] /\ stock'[v] = stock[v]
          /\ variant'[v] # NoRow /\ variant'[v].of = p => variant'[v] = variant[v]

LEMMA AloneStaysAsItWas ==
    ASSUME NEW p \in Products, LeavesAlone(p), NEW row
    PROVE  /\ VariantsOf(p)' = VariantsOf(p)
           /\ OnHand(p)' = OnHand(p)
           /\ HasHistory(p)' <=> HasHistory(p)
           /\ ShapeFits(p, row) => ShapeFits(p, row)'
<1>1. VariantsOf(p)' = VariantsOf(p)
  BY DEF VariantsOf, VariantRows, LeavesAlone
<1>2. OnHand(p)' = OnHand(p)
  BY DEF OnHand, LeavesAlone
<1>3. \A v \in VariantsOf(p) : OnHand(v)' = OnHand(v)
  BY DEF OnHand, LeavesAlone, VariantsOf, VariantRows
<1>4. HasHistory(p)' <=> HasHistory(p)
  <2>1. p \in moved' <=> p \in moved
    BY DEF LeavesAlone
  <2> QED BY <1>1, <1>2, <1>3, <2>1 DEF HasHistory
<1>5. product'[p] = product[p]
  BY DEF LeavesAlone
<1> QED BY <1>1, <1>2, <1>4, <1>5 DEF ShapeFits

\* What a request has decided stays possible while its product is left alone.
LEMMA PromiseKeeps ==
    ASSUME NEW e, NEW j, j.p \in Products, LeavesAlone(j.p), locked'[j.p] = e,
           j.v # NoRow => variant'[j.v] = variant[j.v],
           Promised(e, j)
    PROVE  Promised(e, j)'
<1>1. ShapeFits(j.p, j.form)'
  BY AloneStaysAsItWas DEF Promised
<1>2. product'[j.p] = product[j.p]
  BY DEF LeavesAlone
<1>3. NewCode(j.form, product[j.p])' => j.form.sku \in j.vacant
  BY <1>2 DEF Promised, NewCode
<1>4. j.v # NoRow => VariantFits(j.p, j.v)'
  BY DEF Promised, VariantFits
<1>5. j.v # NoRow /\ j.vsku # 0 /\ (variant'[j.v] = NoRow \/ variant'[j.v].sku # j.vsku)
      => j.vsku \in j.vacant
  BY DEF Promised
<1> QED BY <1>1, <1>3, <1>4, <1>5 DEF Promised

LEMMA UnchangedIsAlone ==
    ASSUME UNCHANGED <<product, variant, stock, moved>>, NEW p
    PROVE  LeavesAlone(p)
BY DEF LeavesAlone

LEMMA RowsUnchanged ==
    ASSUME RowsHold, MeterStockHasItsVariant, UNCHANGED <<product, variant, stock, moved>>
    PROVE  RowsHold' /\ MeterStockHasItsVariant'
<1>1. RowsHold'
  BY DEF RowsHold, VariantRows
<1>2. MeterStockHasItsVariant'
  BY DEF MeterStockHasItsVariant, Rows, OnHand, VariantsOf, VariantRows
<1> QED BY <1>1, <1>2

LEMMA JobsHoldNext ==
    ASSUME \A e \in Editors : job'[e] # NoRow => \E q : q = job'[e] /\ JobHolds(e, q)'
    PROVE  JobsHold'
<1> SUFFICES ASSUME NEW e \in Editors, job'[e] # NoRow
             PROVE  (JobHolds(e, job[e]))'
  BY DEF JobsHold
<1>1. PICK q : q = job'[e] /\ JobHolds(e, q)'
  OBVIOUS
<1> QED BY <1>1 DEF JobHolds, Promised, Looking, ShapeFits, VariantFits, NewCode

\* The requests that a step does not touch.
LEMMA JobHoldsOn ==
    ASSUME JobsHold, NEW e \in Editors, job[e] # NoRow, job'[e] = job[e],
           job[e].decided =>
               /\ LeavesAlone(job[e].p) /\ locked'[job[e].p] = e
               /\ job[e].v # NoRow => variant'[job[e].v] = variant[job[e].v]
    PROVE  \E q : q = job'[e] /\ JobHolds(e, q)'
<1>1. PICK q : q = job[e]
  OBVIOUS
<1>2. q = job'[e] /\ JobHolds(e, q)
  BY <1>1 DEF JobsHold
<1>3. ~ q.decided => JobHolds(e, q)'
  BY <1>2 DEF JobHolds, Looking
<1>4. q.decided => JobHolds(e, q)'
  <2>1. SUFFICES ASSUME q.decided PROVE Promised(e, q)'
    BY DEF JobHolds
  <2>2. Promised(e, q)
    BY <1>2, <2>1 DEF JobHolds
  <2>3. q.p \in Products
    BY <2>2 DEF Promised
  <2>4. LeavesAlone(q.p) /\ locked'[q.p] = e /\ (q.v # NoRow => variant'[q.v] = variant[q.v])
    BY <1>1, <2>1
  <2> QED BY <2>2, <2>3, <2>4, PromiseKeeps
<1> QED BY <1>2, <1>3, <1>4

LEMMA StartKeeps ==
    ASSUME CatalogInv, NEW e \in Editors, job[e] = NoRow, NEW j \in Job,
           ~ j.decided, Looking(j), job' = [job EXCEPT ![e] = j],
           UNCHANGED <<product, variant, stock, moved, locked>>
    PROVE  CatalogInv'
<1>1. CatalogTypes'
  BY DEF CatalogInv, CatalogTypes
<1>2. RowsHold' /\ MeterStockHasItsVariant'
  BY RowsUnchanged DEF CatalogInv
<1>3. job'[e] = j /\ \A o \in Editors : o # e => job'[o] = job[o]
  BY DEF CatalogInv, CatalogTypes
<1>4. JobsHold'
  <2> SUFFICES ASSUME NEW o \in Editors, job'[o] # NoRow
               PROVE  \E q : q = job'[o] /\ JobHolds(o, q)'
    BY JobsHoldNext
  <2>1. CASE o = e
    BY <2>1, <1>3 DEF Looking, JobHolds
  <2>2. CASE o # e
    <3>1. job'[o] = job[o] /\ JobsHold
      BY <2>2, <1>3 DEF CatalogInv
    <3>2. job[o].decided => locked[job[o].p] = o
      BY <3>1 DEF JobsHold, JobHolds, Promised
    <3> QED BY <3>1, <3>2, UnchangedIsAlone, JobHoldsOn
  <2> QED BY <2>1, <2>2
<1>5. VariantsDiffer'
  <2>1. j.v = NoRow
    BY DEF Looking
  <2> QED BY <1>3, <2>1 DEF CatalogInv, VariantsDiffer
<1> QED BY <1>1, <1>2, <1>4, <1>5 DEF CatalogInv

-----------------------------------------------------------------------------
\* A request starts.

LEMMA StartHolds ==
    ASSUME CatalogInv, NEW e \in Editors, NEW op \in {"form", "variant", "import"},
           NEW p \in Rows \cup {NoRow}, NEW form \in Product, NEW shade \in Shades \cup {NoRow},
           NEW vsku \in Codes, NEW qty \in {0, 1},
           Start(e, op, p, form, shade, vsku, qty),
           shade = NoRow => vsku = 0,
           op = "variant" => p # NoRow /\ shade # NoRow /\ (vsku # 0 => vsku \in Vacant(p)),
           op # "variant" /\ shade # NoRow => form.kind = "variant",
           op = "form" /\ p # NoRow /\ form.sku # 0 => form.sku \in Vacant(p)
    PROVE  CatalogInv'
<1> DEFINE old == IF p = NoRow THEN NoRow ELSE product[p].unit
<1>1. old \in Units \cup {NoRow}
  BY ProductFields DEF CatalogInv
<1>2. p \in Products \cup {NoRow} /\ Vacant(p) \in SUBSET Codes
  BY CodesInRange DEF Rows, CatalogInv
<1>3. PICK j : j = [op |-> op, p |-> p, form |-> form, old |-> old, shade |-> shade,
                    vsku |-> vsku, v |-> NoRow, qty |-> qty, decided |-> FALSE,
                    vacant |-> Vacant(p)]
  OBVIOUS
<1> HIDE DEF old
<1>4. j \in Job
  BY <1>1, <1>2, <1>3 DEF Job
<1>5. ~ j.decided /\ Looking(j)
  BY <1>3 DEF Looking
<1>6. job[e] = NoRow /\ job' = [job EXCEPT ![e] = j]
      /\ UNCHANGED <<product, variant, stock, moved, locked>>
  BY <1>3 DEF Start, old
<1> QED BY <1>4, <1>5, <1>6, StartKeeps

LEMMA OpenFormHolds ==
    ASSUME CatalogInv, NEW e \in Editors, OpenForm(e)
    PROVE  CatalogInv'
<1>1. PICK p \in Rows \cup {NoRow}, form \in Product, shade \in Shades \cup {NoRow},
           qty \in {0, 1} :
         /\ shade # NoRow => form.kind = "variant"
         /\ FormAccepts(p, form, shade, qty)
         /\ \E vsku \in VariantCodesFor(shade) : Start(e, "form", p, form, shade, vsku, qty)
  BY DEF OpenForm
<1>2. PICK vsku \in VariantCodesFor(shade) : Start(e, "form", p, form, shade, vsku, qty)
  BY <1>1
<1>3. vsku \in Codes /\ (shade = NoRow => vsku = 0)
  BY CatalogConstants DEF VariantCodesFor, Codes
<1>4. form.sku \in Codes
  BY DEF Product
<1>5. p # NoRow /\ form.sku # 0 => form.sku \in Vacant(p)
  BY <1>1, <1>4 DEF FormAccepts, Vacant
<1>6. shade # NoRow => form.kind = "variant"
  BY <1>1
<1> QED BY <1>2, <1>3, <1>5, <1>6, StartHolds

LEMMA OpenVariantFormHolds ==
    ASSUME CatalogInv, NEW e \in Editors, OpenVariantForm(e)
    PROVE  CatalogInv'
<1>1. PICK p \in Rows, shade \in Shades, vsku \in Vacant(NoRow) :
         Start(e, "variant", p, product[p], shade, vsku, 0)
  BY DEF OpenVariantForm
<1>2. CatalogTypes
  BY DEF CatalogInv
<1>3. vsku \in Codes /\ vsku \in Vacant(p)
  <2>1. Rows \ {p} \subseteq Rows \ {NoRow}
    BY CatalogConstants DEF Rows
  <2>2. CodesExcept(p) \subseteq CodesExcept(NoRow)
    BY <2>1 DEF CodesExcept
  <2> QED BY <2>2 DEF Vacant
<1>4. p # NoRow /\ shade # NoRow /\ product[p] \in Product
  BY <1>2, ProductFields, CatalogConstants
<1> QED BY <1>1, <1>3, <1>4, StartHolds

LEMMA ReadRowHolds ==
    ASSUME CatalogInv, NEW e \in Editors, ReadRow(e)
    PROVE  CatalogInv'
<1>1. PICK row \in Product, bySku \in BOOLEAN, shade \in Shades \cup {NoRow}, qty \in {0, 1} :
         LET found == Meant(row, shade # NoRow, bySku)
         IN  /\ shade # NoRow => row.kind = "variant"
             /\ \E p \in IF found = {} THEN {NoRow} ELSE found, vsku \in VariantCodesFor(shade) :
                   Start(e, "import", p, row, shade, vsku, qty)
  BY DEF ReadRow
<1>2. Meant(row, shade # NoRow, bySku) \subseteq Rows
  BY DEF Meant, Coded, Alike
<1>3. PICK p \in Rows \cup {NoRow}, vsku \in VariantCodesFor(shade) :
         Start(e, "import", p, row, shade, vsku, qty)
  BY <1>1, <1>2
<1>4. vsku \in Codes /\ (shade = NoRow => vsku = 0)
  BY CatalogConstants DEF VariantCodesFor, Codes
<1>5. shade # NoRow => row.kind = "variant"
  BY <1>1
<1> QED BY <1>3, <1>4, <1>5, StartHolds

-----------------------------------------------------------------------------
\* A request decides, under the lock of its product.

\* It reserves row for product p, and variant v with the code vsku.
Reserves(e, p, row, v, vsku) ==
    /\ v \in Variants \cup {NoRow} /\ vsku \in Codes
    /\ v = NoRow <=> job[e].shade = NoRow
    /\ v # NoRow => v \in FreshVariants(e) \/ v \in VariantsOf(p)
    /\ v # NoRow /\ vsku # 0 /\ (variant[v] = NoRow \/ variant[v].sku # vsku)
       => vsku \in job[e].vacant \cup Vacant(p)
    /\ row.sku <= MaxCode
    /\ job' = [job EXCEPT ![e] =
          [job[e] EXCEPT !.p = p, !.form = row, !.v = v, !.vsku = vsku,
                         !.decided = TRUE, !.vacant = @ \cup Vacant(p)]]
    /\ locked' = [locked EXCEPT ![p] = e]
    /\ UNCHANGED <<product, variant, stock, moved>>

\* The request is still at work on what it decides.
Shape == [name : Names, sku : Nat, kind : Kinds, unit : Units]

LEMMA ReservesHolds ==
    ASSUME CatalogInv, NEW e \in Editors, job[e] # NoRow, ~ job[e].decided,
           NEW p \in Products, locked[p] = NoRow, NEW row \in Shape, NEW v, NEW vsku,
           Reserves(e, p, row, v, vsku), ShapeFits(p, row),
           NewCode(row, product[p]) /\ row.sku <= MaxCode => row.sku \in job[e].vacant \cup Vacant(p),
           job[e].shade # NoRow => row.kind = "variant"
    PROVE  CatalogInv'
<1> DEFINE q == [job[e] EXCEPT !.p = p, !.form = row, !.v = v, !.vsku = vsku,
                               !.decided = TRUE, !.vacant = @ \cup Vacant(p)]
<1>1. CatalogTypes /\ UNCHANGED <<product, variant, stock, moved>>
  BY DEF CatalogInv, Reserves
<1>2. row \in Product
  BY CatalogConstants DEF Reserves, Shape, Product, Codes
<1>3. PICK j : j = q
  OBVIOUS
<1>4. job[e] \in Job /\ Vacant(p) \subseteq Codes
  BY <1>1, JobFields, CodesInRange
<1>5. /\ j \in Job /\ j.p = p /\ j.form = row /\ j.v = v /\ j.vsku = vsku /\ j.decided
      /\ j.vacant = job[e].vacant \cup Vacant(p) /\ j.shade = job[e].shade
  BY <1>2, <1>3, <1>4 DEF Job, Reserves
<1> HIDE DEF q
<1>6. /\ job' = [job EXCEPT ![e] = j] /\ job'[e] = j
      /\ \A o \in Editors : o # e => job'[o] = job[o]
  BY <1>1, <1>3 DEF Reserves, CatalogTypes, q
<1>7. locked' = [locked EXCEPT ![p] = e] /\ locked'[p] = e
  BY <1>1 DEF Reserves, CatalogTypes
<1>8. CatalogTypes'
  BY <1>1, <1>5, <1>6, <1>7 DEF CatalogTypes
<1>9. RowsHold' /\ MeterStockHasItsVariant'
  BY <1>1, RowsUnchanged DEF CatalogInv
<1>10. \A o \in Editors : o # e /\ job[o] # NoRow /\ job[o].decided =>
          job[o].p # p /\ locked'[job[o].p] = o /\ Promised(o, job[o])
  <2> SUFFICES ASSUME NEW o \in Editors, o # e, job[o] # NoRow, job[o].decided
               PROVE  job[o].p # p /\ locked'[job[o].p] = o /\ Promised(o, job[o])
    OBVIOUS
  <2>1. Promised(o, job[o])
    BY DEF CatalogInv, JobsHold, JobHolds
  <2>2. job[o].p \in Products /\ locked[job[o].p] = o /\ o # NoRow
    BY <2>1, CatalogConstants DEF Promised
  <2> QED BY <1>1, <2>1, <2>2, <1>7 DEF CatalogTypes
<1>11. Promised(e, j)'
  <2>1. ShapeFits(p, row)'
    BY <1>1, UnchangedIsAlone, AloneStaysAsItWas
  <2>2. NewCode(row, product[p])' => row.sku \in j.vacant
    BY <1>1, <1>5 DEF NewCode, Reserves
  <2>3. v # NoRow => VariantFits(p, v)'
    BY <1>1 DEF VariantFits, Reserves, FreshVariants, VariantsOf
  <2>4. v # NoRow /\ vsku # 0 /\ (variant'[v] = NoRow \/ variant'[v].sku # vsku)
        => vsku \in j.vacant
    BY <1>1, <1>5 DEF Reserves
  <2>5. (v = NoRow <=> j.shade = NoRow) /\ (j.shade # NoRow => row.kind = "variant")
    BY <1>5 DEF Reserves
  <2> QED BY <2>1, <2>2, <2>3, <2>4, <2>5, <1>5, <1>7 DEF Promised
<1>12. JobsHold'
  <2> SUFFICES ASSUME NEW o \in Editors, job'[o] # NoRow
               PROVE  \E r : r = job'[o] /\ JobHolds(o, r)'
    BY JobsHoldNext
  <2>1. CASE o = e
    BY <2>1, <1>5, <1>6, <1>11 DEF JobHolds
  <2>2. CASE o # e
    <3>1. job'[o] = job[o] /\ JobsHold
      BY <2>2, <1>6 DEF CatalogInv
    <3>2. job[o].decided => locked'[job[o].p] = o
      BY <2>2, <3>1, <1>10
    <3> QED BY <3>1, <3>2, <1>1, UnchangedIsAlone, JobHoldsOn
  <2> QED BY <2>1, <2>2
<1>13. \A o \in Editors : o # e /\ job[o] # NoRow /\ v # NoRow => job[o].v # v
  <2> SUFFICES ASSUME NEW o \in Editors, o # e, job[o] # NoRow, v # NoRow, job[o].v = v
               PROVE  FALSE
    OBVIOUS
  <2>1. v \in VariantsOf(p) /\ v \notin FreshVariants(e)
    BY DEF Reserves, FreshVariants
  <2>2. job[o].decided
    <3>1. JobHolds(o, job[o])
      BY DEF CatalogInv, JobsHold
    <3> QED BY <3>1 DEF JobHolds, Looking
  <2>3. Promised(o, job[o]) /\ job[o].p # p
    BY <2>2, <1>10
  <2> QED BY <2>1, <2>3 DEF Promised, VariantFits, VariantsOf, VariantRows
<1>14. VariantsDiffer'
  BY <1>5, <1>6, <1>13 DEF CatalogInv, VariantsDiffer
<1> QED BY <1>8, <1>9, <1>12, <1>14 DEF CatalogInv

LEMMA ReusableIsOfProduct ==
    ASSUME CatalogTypes, NEW p \in Products, NEW code, NEW shade \in Shades, NEW vsku \in Codes,
           NEW vs, vs = ReusableVariant(p, code, shade, vsku), NoRow \notin vs
    PROVE  /\ vs \subseteq VariantsOf(p)
           /\ vs = {} /\ vsku # 0 => vsku \in Vacant(p)
<1> DEFINE coded == {v \in VariantRows : vsku # 0 /\ variant[v].sku = vsku}
           alike == {v \in VariantsOf(p) : variant[v].shade = shade}
           found == IF coded # {} THEN coded ELSE alike
           refused == \/ vsku # 0 /\ vsku \in CodesExcept(p) \cup {code}
                      \/ ~ coded \subseteq alike
                      \/ Cardinality(found) > 1
                      \/ \E v \in found : vsku # 0 /\ variant[v].sku # vsku
<1>1. vs = IF refused THEN {NoRow} ELSE found
  BY DEF ReusableVariant
<1>2. vs = found /\ ~ refused
  <2> HIDE DEF refused, found
  <2> QED BY <1>1
<1>3. coded \subseteq alike /\ (vsku # 0 => vsku \notin CodesExcept(p))
  <2> HIDE DEF coded, alike
  <2> QED BY <1>2
<1>4. vs \subseteq alike
  BY <1>2, <1>3
<1>5. vs = {} => coded = {}
  <2> HIDE DEF coded, alike
  <2> QED BY <1>2
<1>6. coded = {} /\ vsku # 0 => vsku \notin VariantCodes
  BY DEF VariantCodes
<1>7. vs = {} /\ vsku # 0 => vsku \in Vacant(p)
  <2> HIDE DEF coded, alike, found
  <2> QED BY <1>3, <1>5, <1>6 DEF Vacant
<1> QED BY <1>4, <1>7

LEMMA NewVariantIsFresh ==
    ASSUME NEW e, FreshVariants(e) # {}
    PROVE  NewVariant(e) \in FreshVariants(e) /\ NewVariant(e) \in Variants
           /\ variant[NewVariant(e)] = NoRow
<1>1. NewVariant(e) \in FreshVariants(e)
  BY DEF NewVariant
<1> QED BY <1>1 DEF FreshVariants

\* It reserves no variant.
LEMMA DecidesWithoutVariant ==
    ASSUME CatalogTypes, NEW e \in Editors, job[e] # NoRow, job[e].shade = NoRow,
           NEW p \in Products, NEW row \in Shape, Decide(e, p, row, TRUE)
    PROVE  Reserves(e, p, row, NoRow, 0)
<1>1. job' = [job EXCEPT ![e] =
          [job[e] EXCEPT !.p = p, !.form = row, !.v = NoRow, !.vsku = 0,
                         !.decided = TRUE, !.vacant = @ \cup Vacant(p)]]
  BY DEF Decide
<1>2. /\ row.sku <= MaxCode /\ locked' = [locked EXCEPT ![p] = e]
      /\ UNCHANGED <<product, variant, stock, moved>>
  BY DEF Decide
<1>3. 0 \in Codes
  BY CatalogConstants DEF Codes
<1> QED BY <1>1, <1>2, <1>3 DEF Reserves

\* It looks for a variant that it may use again.
LEMMA DecidesReusing ==
    ASSUME CatalogTypes, NEW e \in Editors, job[e] # NoRow, job[e].shade # NoRow,
           job[e].op # "variant", FreshVariants(e) # {},
           NEW p \in Products, NEW row \in Shape, Decide(e, p, row, TRUE)
    PROVE  GiveUp(e) \/ \E v, vsku : Reserves(e, p, row, v, vsku)
<1>1. PICK vs : vs = ReusableVariant(p, row.sku, job[e].shade, job[e].vsku)
  OBVIOUS
<1>2. job[e].shade \in Shades /\ job[e].vsku \in Codes /\ row.sku \in Nat
  BY JobFields DEF Shape
<1>3. CASE NoRow \in vs
  BY <1>1, <1>3 DEF Decide
<1>4. CASE NoRow \notin vs
  <2>1. PICK v : v = IF vs = {} THEN NewVariant(e) ELSE CHOOSE x \in vs : TRUE
    OBVIOUS
  <2>2. PICK vsku : vsku = IF vs # {} THEN variant[v].sku
                           ELSE IF job[e].vsku = 0 THEN NextCode(p, row.sku) ELSE job[e].vsku
    OBVIOUS
  <2>3. /\ vsku <= MaxCode /\ row.sku <= MaxCode
        /\ job' = [job EXCEPT ![e] =
              [job[e] EXCEPT !.p = p, !.form = row, !.v = v,
                             !.vsku = IF v = NoRow THEN 0 ELSE vsku,
                             !.decided = TRUE, !.vacant = @ \cup Vacant(p)]]
        /\ locked' = [locked EXCEPT ![p] = e]
        /\ UNCHANGED <<product, variant, stock, moved>>
    BY <1>1, <1>4, <2>1, <2>2 DEF Decide
  <2>4. vs \subseteq VariantsOf(p) /\ (vs = {} /\ job[e].vsku # 0 => job[e].vsku \in Vacant(p))
    BY <1>1, <1>2, <1>4, ReusableIsOfProduct
  <2>5. v \in Variants /\ v # NoRow /\ (v \in FreshVariants(e) \/ v \in VariantsOf(p))
    <3>1. CASE vs = {}
      BY <3>1, <2>1, NewVariantIsFresh, CatalogConstants
    <3>2. CASE vs # {}
      BY <3>2, <2>1, <2>4, CatalogConstants DEF VariantsOf, VariantRows
    <3> QED BY <3>1, <3>2
  <2>6. vsku \in Codes /\ (variant[v] = NoRow \/ variant[v].sku # vsku => vsku \in Vacant(p))
    <3>1. CASE vs # {}
      <4>1. v \in vs
        BY <3>1, <2>1
      <4>2. v \in VariantRows
        BY <4>1, <2>4 DEF VariantsOf
      <4> QED BY <3>1, <4>2, <2>2, VariantFields DEF VariantRows
    <3>2. CASE vs = {} /\ job[e].vsku = 0
      BY <3>2, <2>2, <2>3, <1>2, MadeUpIsVacant, CodesInRange
    <3>3. CASE vs = {} /\ job[e].vsku # 0
      BY <3>3, <2>2, <2>4, <1>2
    <3> QED BY <3>1, <3>2, <3>3
  <2>7. Reserves(e, p, row, v, vsku)
    BY <2>3, <2>5, <2>6 DEF Reserves
  <2> QED BY <2>7
<1> QED BY <1>3, <1>4

\* The form of a variant makes a new one, with the code that it was given.
LEMMA DecidesNewVariant ==
    ASSUME CatalogTypes, NEW e \in Editors, job[e] # NoRow, job[e].op = "variant",
           Looking(job[e]), FreshVariants(e) # {},
           NEW p \in Products, NEW row \in Shape, Decide(e, p, row, FALSE)
    PROVE  Reserves(e, p, row, NewVariant(e), job[e].vsku)
<1>1. PICK v : v = NewVariant(e)
  OBVIOUS
<1>2. v \in Variants /\ v # NoRow /\ v \in FreshVariants(e)
  BY <1>1, NewVariantIsFresh, CatalogConstants
<1>3. /\ job' = [job EXCEPT ![e] =
          [job[e] EXCEPT !.p = p, !.form = row, !.v = v, !.vsku = job[e].vsku,
                         !.decided = TRUE, !.vacant = @ \cup Vacant(p)]]
      /\ row.sku <= MaxCode /\ locked' = [locked EXCEPT ![p] = e]
      /\ UNCHANGED <<product, variant, stock, moved>>
  BY <1>1, <1>2 DEF Decide, Looking
<1>4. job[e].vsku \in Codes /\ job[e].shade # NoRow
      /\ (job[e].vsku # 0 => job[e].vsku \in job[e].vacant)
  BY JobFields DEF Looking
<1>5. Reserves(e, p, row, v, job[e].vsku)
  BY <1>2, <1>3, <1>4 DEF Reserves
<1> QED BY <1>1, <1>5

LEMMA GiveUpHolds ==
    ASSUME CatalogInv, NEW e \in Editors, GiveUp(e)
    PROVE  CatalogInv' /\ UNCHANGED <<product, variant, stock, moved>>
<1>1. UNCHANGED <<product, variant, stock, moved>> /\ CatalogTypes
  BY DEF GiveUp, CatalogInv
<1>2. job'[e] = NoRow /\ \A o \in Editors : o # e => job'[o] = job[o]
  BY <1>1 DEF GiveUp, CatalogTypes
<1>3. \A p \in Products : locked'[p] = IF locked[p] = e THEN NoRow ELSE locked[p]
  BY DEF GiveUp, Unlocked
<1>4. CatalogTypes'
  <2>1. job' \in [Editors -> Job \cup {NoRow}]
    BY <1>1 DEF GiveUp, CatalogTypes
  <2>2. locked' \in [Products -> Editors \cup {NoRow}]
    BY <1>1 DEF GiveUp, CatalogTypes, Unlocked
  <2> QED BY <1>1, <2>1, <2>2 DEF CatalogTypes
<1>5. RowsHold' /\ MeterStockHasItsVariant'
  BY <1>1, RowsUnchanged DEF CatalogInv
<1>6. JobsHold'
  <2> SUFFICES ASSUME NEW o \in Editors, job'[o] # NoRow
               PROVE  \E q : q = job'[o] /\ JobHolds(o, q)'
    BY JobsHoldNext
  <2>1. o # e /\ job'[o] = job[o] /\ JobsHold
    BY <1>2 DEF CatalogInv
  <2>2. job[o].decided => locked'[job[o].p] = o
    <3>1. job[o].decided => job[o].p \in Products /\ locked[job[o].p] = o
      BY <2>1 DEF JobsHold, JobHolds, Promised
    <3> QED BY <2>1, <3>1, <1>3
  <2> QED BY <2>1, <2>2, <1>1, UnchangedIsAlone, JobHoldsOn
<1>7. VariantsDiffer'
  BY <1>2 DEF CatalogInv, VariantsDiffer
<1> QED BY <1>1, <1>4, <1>5, <1>6, <1>7 DEF CatalogInv

LEMMA DecideHolds ==
    ASSUME CatalogInv, NEW e \in Editors, job[e] # NoRow, ~ job[e].decided,
           job[e].op # "variant", FreshVariants(e) # {},
           NEW p \in Products, locked[p] = NoRow, NEW row \in Shape, ShapeFits(p, row),
           NewCode(row, product[p]) /\ row.sku <= MaxCode => row.sku \in job[e].vacant \cup Vacant(p),
           job[e].shade # NoRow => row.kind = "variant",
           Decide(e, p, row, TRUE)
    PROVE  CatalogInv' /\ UNCHANGED <<product, variant, stock, moved>>
<1>1. GiveUp(e) \/ \E v, vsku : Reserves(e, p, row, v, vsku)
  <2>1. CASE job[e].shade = NoRow
    BY <2>1, DecidesWithoutVariant DEF CatalogInv
  <2>2. CASE job[e].shade # NoRow
    BY <2>2, DecidesReusing DEF CatalogInv
  <2> QED BY <2>1, <2>2
<1>2. CASE GiveUp(e)
  BY <1>2, GiveUpHolds
<1>3. ASSUME NEW v, NEW vsku, Reserves(e, p, row, v, vsku)
      PROVE  CatalogInv' /\ UNCHANGED <<product, variant, stock, moved>>
  <2>1. CatalogInv'
    BY <1>3, ReservesHolds
  <2> QED BY <1>3, <2>1 DEF Reserves
<1> QED BY <1>1, <1>2, <1>3

\* What is allowed under the lock fits; what a product is fits it, too.
LEMMA AllowedFits ==
    ASSUME NEW p \in Products, NEW row, product[p] # NoRow, ShapeAllowed(p, product[p], row)
    PROVE  ShapeFits(p, row)
BY DEF ShapeAllowed, ShapeFits, IsMeter, IsMeterTailoring

LEMMA PresentFits ==
    ASSUME CatalogInv, NEW p \in Products, product[p] # NoRow
    PROVE  ShapeFits(p, product[p]) /\ product[p] \in Shape
<1>1. p \in Rows /\ CatalogTypes
  BY DEF Rows, CatalogInv
<1>2. ShapeFits(p, product[p])
  BY <1>1 DEF CatalogInv, MeterStockHasItsVariant, ShapeFits
<1>3. product[p] \in Product /\ Codes \subseteq Nat
  BY <1>1, ProductFields, CodesInRange
<1>4. product[p] \in Shape
  BY <1>3 DEF Product, Shape
<1> QED BY <1>2, <1>4

\* A new product has neither variants nor stock.
LEMMA NewFits ==
    ASSUME CatalogInv, NEW p \in Products, product[p] = NoRow, NEW row
    PROVE  ShapeFits(p, row)
<1>1. VariantsOf(p) = {} /\ OnHand(p) = 0
  BY DEF CatalogInv, RowsHold, VariantsOf, OnHand
<1> QED BY <1>1 DEF ShapeFits

LEMMA CodeWanted ==
    ASSUME CatalogTypes, NEW p, NEW form \in Product
    PROVE  \A auto \in BOOLEAN :
             /\ WithCode(p, form, auto) \in Shape
             /\ WithCode(p, form, auto).kind = form.kind /\ WithCode(p, form, auto).unit = form.unit
             /\ WithCode(p, form, auto).sku # form.sku /\ WithCode(p, form, auto).sku <= MaxCode
                => WithCode(p, form, auto).sku \in Vacant(p)
<1>1. form \in Shape
  BY CodesInRange DEF Product, Shape
<1>2. NextCode(p, 0) \in Nat /\ (NextCode(p, 0) <= MaxCode => NextCode(p, 0) \in Vacant(p))
  BY MadeUpIsVacant
<1>3. PICK code \in Nat : code = NextCode(p, 0)
  BY <1>2
<1>4. PICK made : made = [form EXCEPT !.sku = code]
  OBVIOUS
<1>5. made \in Shape /\ made.kind = form.kind /\ made.unit = form.unit /\ made.sku = code
  BY <1>1, <1>4 DEF Shape
<1>6. \A auto \in BOOLEAN : WithCode(p, form, auto) = form \/ WithCode(p, form, auto) = made
  BY <1>3, <1>4 DEF WithCode
<1> QED BY <1>1, <1>2, <1>3, <1>5, <1>6

LEMMA DecideEditHolds ==
    ASSUME CatalogInv, NEW e \in Editors, DecideEdit(e)
    PROVE  CatalogInv' /\ UNCHANGED <<product, variant, stock, moved>>
<1>1. PICK p : p = job[e].p
  OBVIOUS
<1>2. PICK form : form = job[e].form
  OBVIOUS
<1>3. job[e] # NoRow /\ job[e].op = "form" /\ ~ job[e].decided /\ p # NoRow
      /\ FreshVariants(e) # {} /\ locked[p] = NoRow
  BY <1>1 DEF DecideEdit, Looked
<1>4. IF StillAllowed(p, form)
      THEN \E auto \in BOOLEAN : Decide(e, p, WithCode(p, form, auto), TRUE) ELSE GiveUp(e)
  BY <1>1, <1>2 DEF DecideEdit
<1>5. CatalogTypes /\ p \in Products /\ form \in Product
  BY <1>1, <1>2, <1>3, JobFields DEF CatalogInv
<1>6. CASE ~ StillAllowed(p, form)
  BY <1>4, <1>6, GiveUpHolds
<1>7. CASE StillAllowed(p, form)
  <2>1. PICK auto \in BOOLEAN : Decide(e, p, WithCode(p, form, auto), TRUE)
    BY <1>4, <1>7
  <2>2. PICK row : row = WithCode(p, form, auto)
    OBVIOUS
  <2>3. row \in Shape /\ row.kind = form.kind /\ row.unit = form.unit
        /\ (row.sku # form.sku /\ row.sku <= MaxCode => row.sku \in Vacant(p))
    BY <1>5, <2>2, CodeWanted
  <2>4. ShapeFits(p, row)
    <3>1. ShapeFits(p, form)
      BY <1>5, <1>7, AllowedFits DEF StillAllowed
    <3> QED BY <3>1, <2>3 DEF ShapeFits, IsMeter, IsMeterTailoring
  <2>5. Looking(job[e])
    BY <1>3 DEF CatalogInv, JobsHold, JobHolds
  <2>6. job[e].shade # NoRow => row.kind = "variant"
    BY <1>2, <1>3, <2>3, <2>5 DEF Looking
  <2>7. NewCode(row, product[p]) /\ row.sku <= MaxCode => row.sku \in job[e].vacant \cup Vacant(p)
    BY <1>1, <1>2, <1>3, <2>3, <2>5 DEF Looking, NewCode
  <2>8. Decide(e, p, row, TRUE) /\ job[e].op # "variant"
    BY <1>3, <2>1, <2>2
  <2> QED BY <1>3, <1>5, <2>3, <2>4, <2>6, <2>7, <2>8, DecideHolds
<1> QED BY <1>6, <1>7

LEMMA NewProductIsFresh ==
    ASSUME FreshProducts # {}
    PROVE  NewProduct \in Products /\ product[NewProduct] = NoRow /\ locked[NewProduct] = NoRow
<1>1. NewProduct \in FreshProducts
  BY DEF NewProduct
<1> QED BY <1>1 DEF FreshProducts

\* A code that no product and no variant has is vacant for a new product.
LEMMA UnusedIsVacant ==
    ASSUME NEW p, NEW code \in Codes, code \notin VariantCodes, code # 0,
           \A o \in Rows : product[o].sku # code
    PROVE  code \in Vacant(p)
BY DEF Vacant, CodesExcept

\* What a form may use again is of its type.
LEMMA ReusableIsAlike ==
    ASSUME NEW form, NEW found, found = Reusable(form), NoRow \notin found
    PROVE  /\ \A p \in found : p \in Rows /\ product[p].kind = form.kind
           /\ form.sku \notin VariantCodes
           /\ found = {} => Coded(form) = {}
<1> DEFINE of == IF Coded(form) # {} THEN Coded(form) ELSE Alike(form)
           refused == \/ form.sku \in VariantCodes
                      \/ ~ Coded(form) \subseteq Alike(form)
                      \/ Cardinality(of) > 1
                      \/ \E p \in of : product[p].kind # form.kind
                                       \/ (form.sku # 0 /\ product[p].sku # form.sku)
<1>1. found = IF refused THEN {NoRow} ELSE of
  BY DEF Reusable
<1>2. found = of /\ ~ refused
  <2> HIDE DEF refused, of
  <2> QED BY <1>1
<1>3. form.sku \notin VariantCodes /\ (found = {} => Coded(form) = {})
  BY <1>2
<1>4. found \subseteq Rows
  BY <1>2 DEF Coded, Alike
<1>5. \A p \in found : product[p].kind = form.kind
  BY <1>2
<1> QED BY <1>3, <1>4, <1>5

LEMMA DecideNewHolds ==
    ASSUME CatalogInv, NEW e \in Editors, DecideNew(e)
    PROVE  CatalogInv' /\ UNCHANGED <<product, variant, stock, moved>>
<1>1. PICK form : form = job[e].form
  OBVIOUS
<1>2. PICK found : found = Reusable(form)
  OBVIOUS
<1>3. job[e] # NoRow /\ job[e].op = "form" /\ ~ job[e].decided
      /\ FreshProducts # {} /\ FreshVariants(e) # {}
  BY DEF DecideNew, Looked
<1>4. IF NoRow \in found \/ (found = {} /\ ~ RoomInPlan)
      THEN GiveUp(e)
      ELSE IF found = {}
      THEN \E auto \in BOOLEAN : Decide(e, NewProduct, WithCode(NewProduct, form, auto), TRUE)
      ELSE \E p \in found : locked[p] = NoRow /\ Decide(e, p, product[p], TRUE)
  BY <1>1, <1>2 DEF DecideNew
<1>5. CatalogTypes /\ form \in Product /\ form.sku \in Codes
  <2>1. CatalogTypes /\ form \in Product
    BY <1>1, <1>3, JobFields DEF CatalogInv
  <2> QED BY <2>1 DEF Product
<1>6. job[e].shade # NoRow => form.kind = "variant"
  BY <1>1, <1>3 DEF CatalogInv, JobsHold, JobHolds, Looking
<1>7. CASE GiveUp(e)
  BY <1>7, GiveUpHolds
<1>8. CASE NoRow \notin found /\ found = {}
                /\ \E auto \in BOOLEAN :
                      Decide(e, NewProduct, WithCode(NewProduct, form, auto), TRUE)
  <2>1. PICK p : p = NewProduct
    OBVIOUS
  <2>2. PICK auto \in BOOLEAN : Decide(e, p, WithCode(p, form, auto), TRUE)
    BY <1>8, <2>1
  <2>3. PICK row : row = WithCode(p, form, auto)
    OBVIOUS
  <2>4. p \in Products /\ product[p] = NoRow /\ locked[p] = NoRow
    BY <1>3, <2>1, NewProductIsFresh
  <2>5. row \in Shape /\ row.kind = form.kind
        /\ (row.sku # form.sku /\ row.sku <= MaxCode => row.sku \in Vacant(p))
    BY <1>5, <2>3, CodeWanted
  <2>6. form.sku # 0 => form.sku \in Vacant(p)
    <3>1. form.sku \notin VariantCodes /\ Coded(form) = {}
      BY <1>2, <1>8, ReusableIsAlike
    <3>2. form.sku # 0 => \A o \in Rows : product[o].sku # form.sku
      BY <3>1 DEF Coded
    <3> QED BY <1>5, <3>1, <3>2, UnusedIsVacant
  <2>7. NewCode(row, product[p]) /\ row.sku <= MaxCode => row.sku \in job[e].vacant \cup Vacant(p)
    BY <2>5, <2>6 DEF NewCode
  <2>8. ShapeFits(p, row) /\ (job[e].shade # NoRow => row.kind = "variant")
    BY <1>6, <2>4, <2>5, NewFits
  <2>9. Decide(e, p, row, TRUE) /\ job[e].op # "variant"
    BY <1>3, <2>2, <2>3
  <2> QED BY <1>3, <2>4, <2>5, <2>7, <2>8, <2>9, DecideHolds
<1>9. CASE NoRow \notin found
               /\ \E p \in found : locked[p] = NoRow /\ Decide(e, p, product[p], TRUE)
  <2>1. PICK p \in found : locked[p] = NoRow /\ Decide(e, p, product[p], TRUE)
    BY <1>9
  <2>2. p \in Rows /\ product[p].kind = form.kind
    BY <1>2, <1>9, ReusableIsAlike
  <2>3. PICK row : row = product[p]
    OBVIOUS
  <2>4. p \in Products /\ ShapeFits(p, row) /\ row \in Shape
    BY <2>2, <2>3, PresentFits DEF Rows
  <2>5. ~ NewCode(row, product[p]) /\ (job[e].shade # NoRow => row.kind = "variant")
    BY <1>6, <2>2, <2>3 DEF NewCode, Rows
  <2>6. Decide(e, p, row, TRUE) /\ job[e].op # "variant"
    BY <1>3, <2>1, <2>3
  <2> QED BY <1>3, <2>1, <2>4, <2>5, <2>6, DecideHolds
<1> QED BY <1>4, <1>7, <1>8, <1>9

\* A product becomes one with variants.
LEMMA AsParent ==
    ASSUME CatalogInv, NEW p \in Products, product[p] # NoRow,
           NEW parent, parent = [product[p] EXCEPT !.kind = "variant"]
    PROVE  parent \in Shape /\ parent.kind = "variant" /\ ~ NewCode(parent, product[p])
<1>1. product[p] \in Shape
  BY PresentFits
<1>2. PICK row \in Shape : row = product[p]
  BY <1>1
<1>3. parent \in Shape /\ parent.kind = "variant" /\ parent.sku = row.sku
  BY <1>2 DEF Shape, Kinds
<1> QED BY <1>2, <1>3 DEF NewCode

LEMMA DecideVariantHolds ==
    ASSUME CatalogInv, NEW e \in Editors, DecideVariant(e)
    PROVE  CatalogInv' /\ UNCHANGED <<product, variant, stock, moved>>
<1>1. PICK p : p = job[e].p
  OBVIOUS
<1>2. PICK row : row = [product[p] EXCEPT !.kind = "variant"]
  OBVIOUS
<1>3. job[e] # NoRow /\ job[e].op = "variant" /\ ~ job[e].decided
      /\ FreshVariants(e) # {} /\ locked[p] = NoRow
  BY <1>1 DEF DecideVariant, Looked
<1>4. IF product[p] # NoRow /\ ShapeAllowed(p, product[p], row)
      THEN Decide(e, p, row, FALSE) ELSE GiveUp(e)
  BY <1>1, <1>2 DEF DecideVariant
<1>5. Looking(job[e])
  BY <1>3 DEF CatalogInv, JobsHold, JobHolds
<1>6. CatalogTypes /\ p \in Products
  BY <1>1, <1>3, <1>5, JobFields DEF CatalogInv, Looking
<1>7. CASE GiveUp(e)
  BY <1>7, GiveUpHolds
<1>8. CASE product[p] # NoRow /\ ShapeAllowed(p, product[p], row) /\ Decide(e, p, row, FALSE)
  <2>1. row \in Shape /\ row.kind = "variant" /\ ~ NewCode(row, product[p])
    BY <1>2, <1>6, <1>8, AsParent
  <2>2. ShapeFits(p, row)
    BY <1>6, <1>8, AllowedFits
  <2>3. Reserves(e, p, row, NewVariant(e), job[e].vsku)
    BY <1>3, <1>5, <1>6, <1>8, <2>1, DecidesNewVariant
  <2>4. CatalogInv'
    BY <1>3, <1>6, <2>1, <2>2, <2>3, ReservesHolds
  <2> QED BY <2>3, <2>4 DEF Reserves
<1> QED BY <1>4, <1>7, <1>8

LEMMA DecideRowHolds ==
    ASSUME CatalogInv, NEW e \in Editors, DecideRow(e)
    PROVE  CatalogInv' /\ UNCHANGED <<product, variant, stock, moved>>
<1>1. PICK p : p = job[e].p
  OBVIOUS
<1>2. PICK parent : parent = [product[p] EXCEPT !.kind = "variant"]
  OBVIOUS
<1>3. job[e] # NoRow /\ job[e].op # "variant" /\ ~ job[e].decided /\ p # NoRow
      /\ FreshVariants(e) # {} /\ locked[p] = NoRow
  BY <1>1 DEF DecideRow, Looked
<1>4. IF product[p] = NoRow THEN GiveUp(e)
      ELSE IF job[e].shade = NoRow THEN Decide(e, p, product[p], TRUE)
      ELSE IF product[p].unit = job[e].old /\ ShapeAllowed(p, product[p], parent)
      THEN Decide(e, p, parent, TRUE) ELSE GiveUp(e)
  BY <1>1, <1>2 DEF DecideRow
<1>5. p \in Products
  BY <1>1, <1>3, JobFields DEF CatalogInv
<1>6. CASE GiveUp(e)
  BY <1>6, GiveUpHolds
<1>7. CASE product[p] # NoRow /\ job[e].shade = NoRow /\ Decide(e, p, product[p], TRUE)
  <2>1. PICK row : row = product[p]
    OBVIOUS
  <2>2. ShapeFits(p, row) /\ row \in Shape
    BY <1>5, <1>7, <2>1, PresentFits
  <2>3. ~ NewCode(row, product[p]) /\ Decide(e, p, row, TRUE)
    BY <1>7, <2>1 DEF NewCode
  <2> QED BY <1>3, <1>5, <1>7, <2>2, <2>3, DecideHolds
<1>8. CASE product[p] # NoRow /\ ShapeAllowed(p, product[p], parent) /\ Decide(e, p, parent, TRUE)
  <2>1. parent \in Shape /\ parent.kind = "variant" /\ ~ NewCode(parent, product[p])
    BY <1>2, <1>5, <1>8, AsParent
  <2>2. ShapeFits(p, parent)
    BY <1>5, <1>8, AllowedFits
  <2> QED BY <1>3, <1>5, <1>8, <2>1, <2>2, DecideHolds
<1> QED BY <1>4, <1>6, <1>7, <1>8

LEMMA DecideNewRowHolds ==
    ASSUME CatalogInv, NEW e \in Editors, DecideNewRow(e)
    PROVE  CatalogInv' /\ UNCHANGED <<product, variant, stock, moved>>
<1>1. PICK row : row = job[e].form
  OBVIOUS
<1>2. PICK p : p = NewProduct
  OBVIOUS
<1>3. job[e] # NoRow /\ job[e].op # "variant" /\ ~ job[e].decided /\ FreshVariants(e) # {}
  BY DEF DecideNewRow, Looked
<1>4. IF row.sku \in CodesExcept(NoRow) \cup VariantCodes THEN GiveUp(e)
      ELSE FreshProducts # {} /\ Decide(e, p, row, TRUE)
  BY <1>1, <1>2 DEF DecideNewRow
<1>5. CatalogTypes /\ row \in Product /\ row.sku \in Codes /\ row \in Shape
  <2>1. CatalogTypes /\ row \in Product
    BY <1>1, <1>3, JobFields DEF CatalogInv
  <2> QED BY <2>1, CodesInRange DEF Product, Shape
<1>6. CASE GiveUp(e)
  BY <1>6, GiveUpHolds
<1>7. CASE row.sku \notin CodesExcept(NoRow) \cup VariantCodes
               /\ FreshProducts # {} /\ Decide(e, p, row, TRUE)
  <2>1. p \in Products /\ product[p] = NoRow /\ locked[p] = NoRow
    BY <1>2, <1>7, NewProductIsFresh
  <2>2. Rows \ {NoRow} = Rows
    BY CatalogConstants DEF Rows
  <2>3. row.sku # 0 => \A o \in Rows : product[o].sku # row.sku
    BY <1>7, <2>2 DEF CodesExcept
  <2>4. row.sku # 0 => row.sku \in Vacant(p)
    BY <1>5, <1>7, <2>3, UnusedIsVacant
  <2>5. NewCode(row, product[p]) /\ row.sku <= MaxCode => row.sku \in job[e].vacant \cup Vacant(p)
    BY <2>4 DEF NewCode
  <2>6. ShapeFits(p, row)
    BY <2>1, NewFits
  <2>7. job[e].shade # NoRow => row.kind = "variant"
    BY <1>1, <1>3 DEF CatalogInv, JobsHold, JobHolds, Looking
  <2> QED BY <1>3, <1>5, <1>7, <2>1, <2>5, <2>6, <2>7, DecideHolds
<1> QED BY <1>4, <1>6, <1>7

-----------------------------------------------------------------------------
\* A request inserts, a product is deleted, stock moves.

\* What no step may do to the catalog.
CatalogStep ==
    /\ ShapesStay /\ CodesWereVacant /\ OpeningsAreFirst
    /\ moved \subseteq {p \in Products : product'[p] # NoRow}

LEMMA MovedIsPresent ==
    ASSUME CatalogInv
    PROVE  moved \subseteq {p \in Products : product[p] # NoRow}
BY DEF CatalogInv, CatalogTypes, RowsHold

LEMMA QuietStep ==
    ASSUME CatalogInv, UNCHANGED <<product, variant, stock, moved>>
    PROVE  CatalogStep
<1>1. ShapesStay
  BY DEF ShapesStay
<1>2. CodesWereVacant
  BY DEF CodesWereVacant, NewCode
<1>3. OpeningsAreFirst
  BY DEF OpeningsAreFirst
<1> QED BY <1>1, <1>2, <1>3, MovedIsPresent DEF CatalogStep

LEMMA MoveHolds ==
    ASSUME CatalogInv, NEW p \in Products, Move(p)
    PROVE  CatalogInv' /\ CatalogStep
<1>1. /\ p \in Rows /\ locked[p] = NoRow /\ moved' = moved \cup {p}
      /\ UNCHANGED <<product, variant, job, locked>> /\ CatalogTypes
  BY DEF Move, CatalogInv
<1>2. \/ \E x \in {p} \cup VariantsOf(p), q \in Nat :
            Takes(p, product[p], x) /\ stock' = [stock EXCEPT ![x] = q]
      \/ stock' = stock
  <2>1. 0 .. MaxStock \subseteq Nat
    OBVIOUS
  <2> QED BY <2>1 DEF Move
<1>3. VariantsOf(p) \subseteq Variants /\ Products \cap Variants = {}
      /\ \A v \in VariantsOf(p) : variant[v].of = p
  BY CatalogConstants DEF VariantsOf, VariantRows
<1>4. stock' \in [Products \cup Variants -> Nat \cup {NoRow}]
  BY <1>1, <1>2, <1>3 DEF CatalogTypes
<1>5. CatalogTypes'
  BY <1>1, <1>4 DEF CatalogTypes
<1>6. \A x \in Products \cup Variants :
         x # p /\ x \notin VariantsOf(p) => stock'[x] = stock[x]
  BY <1>1, <1>2 DEF CatalogTypes
<1>7. \A o \in Products : o # p => LeavesAlone(o)
  <2> SUFFICES ASSUME NEW o \in Products, o # p PROVE LeavesAlone(o)
    OBVIOUS
  <2>1. stock'[o] = stock[o]
    BY <1>3, <1>6
  <2>2. \A v \in Variants : variant[v] # NoRow /\ variant[v].of = o => stock'[v] = stock[v]
    BY <1>3, <1>6, CatalogConstants
  <2> QED BY <1>1, <2>1, <2>2 DEF LeavesAlone
<1>8. RowsHold'
  <2>1. \A o \in Products : product'[o] = NoRow => stock'[o] = NoRow /\ o \notin moved'
    BY <1>1, <1>3, <1>6 DEF CatalogInv, RowsHold, Rows
  <2>2. \A v \in VariantRows' : product'[variant'[v].of] # NoRow
    BY <1>1 DEF CatalogInv, RowsHold, VariantRows
  <2> QED BY <2>1, <2>2 DEF RowsHold
<1>9. JobsHold'
  <2> SUFFICES ASSUME NEW o \in Editors, job'[o] # NoRow
               PROVE  \E r : r = job'[o] /\ JobHolds(o, r)'
    BY JobsHoldNext
  <2>1. job'[o] = job[o] /\ JobsHold /\ job[o] # NoRow
    BY <1>1 DEF CatalogInv
  <2>2. job[o].decided => LeavesAlone(job[o].p) /\ locked'[job[o].p] = o
    <3>1. job[o].decided => job[o].p \in Products /\ locked[job[o].p] = o
      BY <2>1 DEF JobsHold, JobHolds, Promised
    <3> QED BY <1>1, <1>7, <3>1, CatalogConstants
  <2> QED BY <1>1, <2>1, <2>2, JobHoldsOn
<1>10. VariantsDiffer'
  BY <1>1 DEF CatalogInv, VariantsDiffer
<1>11. MeterStockHasItsVariant'
  <2> SUFFICES ASSUME NEW o \in Products, product[o] # NoRow, IsMeterTailoring(product[o])
               PROVE  (IF product[o].kind = "variant" THEN OnHand(o) = 0 ELSE VariantsOf(o) = {})'
    BY <1>1 DEF MeterStockHasItsVariant, Rows
  <2>1. IF product[o].kind = "variant" THEN OnHand(o) = 0 ELSE VariantsOf(o) = {}
    BY DEF CatalogInv, MeterStockHasItsVariant, Rows
  <2>2. VariantsOf(o)' = VariantsOf(o)
    BY <1>1 DEF VariantsOf, VariantRows
  <2>3. product[o].kind = "variant" => stock'[o] = stock[o]
    <3>1. CASE o = p
      BY <1>1, <1>2, <1>3, <3>1 DEF Takes, CatalogTypes
    <3>2. CASE o # p
      BY <3>2, <1>3, <1>6
    <3> QED BY <3>1, <3>2
  <2> QED BY <1>1, <2>1, <2>2, <2>3 DEF OnHand
<1>12. CatalogStep
  <2>1. ShapesStay
    BY <1>1 DEF ShapesStay
  <2>2. CodesWereVacant /\ OpeningsAreFirst
    BY <1>1 DEF CodesWereVacant, OpeningsAreFirst
  <2> QED BY <1>1, <2>1, <2>2, MovedIsPresent DEF CatalogStep
<1> QED BY <1>5, <1>8, <1>9, <1>10, <1>11, <1>12 DEF CatalogInv

LEMMA DeleteHolds ==
    ASSUME CatalogInv, NEW p \in Products, Delete(p)
    PROVE  CatalogInv' /\ CatalogStep
<1>1. /\ p \in Rows /\ locked[p] = NoRow /\ p \notin moved
      /\ UNCHANGED <<moved, job, locked>> /\ CatalogTypes
      /\ product' = [product EXCEPT ![p] = NoRow]
  BY DEF Delete, CatalogInv, Unused
<1>2. \A v \in Variants : variant'[v] = IF v \in VariantsOf(p) THEN NoRow ELSE variant[v]
  BY DEF Delete
<1>3. \A x \in Products \cup Variants :
         stock'[x] = IF x = p \/ x \in VariantsOf(p) THEN NoRow ELSE stock[x]
  BY DEF Delete
<1>4. VariantsOf(p) \subseteq Variants /\ Products \cap Variants = {}
      /\ \A v \in VariantsOf(p) : variant[v].of = p
  BY CatalogConstants DEF VariantsOf, VariantRows
<1>5. product'[p] = NoRow /\ \A o \in Products : o # p => product'[o] = product[o]
  BY <1>1 DEF CatalogTypes
<1>6. CatalogTypes'
  <2>1. product' \in [Products -> Product \cup {NoRow}]
    BY <1>1 DEF CatalogTypes
  <2>2. variant' \in [Variants -> Variant \cup {NoRow}]
    BY <1>1 DEF Delete, CatalogTypes
  <2>3. stock' \in [Products \cup Variants -> Nat \cup {NoRow}]
    BY <1>1 DEF Delete, CatalogTypes
  <2> QED BY <1>1, <2>1, <2>2, <2>3 DEF CatalogTypes
<1>7. \A o \in Products : o # p => LeavesAlone(o)
  <2> SUFFICES ASSUME NEW o \in Products, o # p PROVE LeavesAlone(o)
    OBVIOUS
  <2>1. stock'[o] = stock[o] /\ product'[o] = product[o]
    BY <1>3, <1>4, <1>5
  <2>2. \A v \in Variants : variant[v] # NoRow /\ variant[v].of = o =>
           variant'[v] = variant[v] /\ stock'[v] = stock[v]
    BY <1>2, <1>3, <1>4, CatalogConstants
  <2>3. \A v \in Variants : variant'[v] # NoRow /\ variant'[v].of = o => variant'[v] = variant[v]
    BY <1>2
  <2> QED BY <1>1, <2>1, <2>2, <2>3 DEF LeavesAlone
<1>8. RowsHold'
  <2>1. \A o \in Products : product'[o] = NoRow => stock'[o] = NoRow /\ o \notin moved'
    BY <1>1, <1>3, <1>5, <1>4 DEF CatalogInv, RowsHold
  <2>2. \A v \in VariantRows' : product'[variant'[v].of] # NoRow
    <3> SUFFICES ASSUME NEW v \in Variants, variant'[v] # NoRow
                 PROVE  product'[variant'[v].of] # NoRow
      BY DEF VariantRows
    <3>1. variant'[v] = variant[v] /\ v \in VariantRows /\ v \notin VariantsOf(p)
      BY <1>2 DEF VariantRows
    <3>2. variant[v].of # p /\ variant[v].of \in Products
      BY <3>1, <1>1, VariantFields DEF VariantsOf
    <3>3. product[variant[v].of] # NoRow
      BY <3>1 DEF CatalogInv, RowsHold
    <3> QED BY <3>1, <3>2, <3>3, <1>5
  <2> QED BY <2>1, <2>2 DEF RowsHold
<1>9. JobsHold'
  <2> SUFFICES ASSUME NEW o \in Editors, job'[o] # NoRow
               PROVE  \E r : r = job'[o] /\ JobHolds(o, r)'
    BY JobsHoldNext
  <2>1. job'[o] = job[o] /\ JobsHold /\ job[o] # NoRow
    BY <1>1 DEF CatalogInv
  <2>2. job[o].decided => Promised(o, job[o]) /\ job[o].p \in Products /\ job[o].p # p
                          /\ locked'[job[o].p] = o
    <3>1. job[o].decided => Promised(o, job[o])
      BY <2>1 DEF JobsHold, JobHolds
    <3>2. job[o].decided => job[o].p \in Products /\ locked[job[o].p] = o
      BY <3>1 DEF Promised
    <3> QED BY <1>1, <3>1, <3>2, CatalogConstants
  <2>3. job[o].decided /\ job[o].v # NoRow => variant'[job[o].v] = variant[job[o].v]
    <3> SUFFICES ASSUME job[o].decided, job[o].v # NoRow
                 PROVE  variant'[job[o].v] = variant[job[o].v]
      OBVIOUS
    <3>1. job[o].v \in Variants
      BY <1>1, <2>1, JobFields
    <3>2. VariantFits(job[o].p, job[o].v)
      BY <2>2 DEF Promised
    <3>3. job[o].v \notin VariantsOf(p)
      BY <2>2, <3>2 DEF VariantFits, VariantsOf, VariantRows
    <3> QED BY <1>2, <3>1, <3>3
  <2>4. job[o].decided => LeavesAlone(job[o].p)
    BY <1>7, <2>2
  <2> QED BY <2>1, <2>2, <2>3, <2>4, JobHoldsOn
<1>10. VariantsDiffer'
  BY <1>1 DEF CatalogInv, VariantsDiffer
<1>11. MeterStockHasItsVariant'
  <2> SUFFICES ASSUME NEW o \in Products, product'[o] # NoRow, IsMeterTailoring(product'[o])
               PROVE  (IF product[o].kind = "variant" THEN OnHand(o) = 0 ELSE VariantsOf(o) = {})'
    BY DEF MeterStockHasItsVariant, Rows
  <2>1. o # p /\ product'[o] = product[o] /\ LeavesAlone(o)
    BY <1>5, <1>7
  <2>2. IF product[o].kind = "variant" THEN OnHand(o) = 0 ELSE VariantsOf(o) = {}
    BY <2>1 DEF CatalogInv, MeterStockHasItsVariant, Rows
  <2> QED BY <2>1, <2>2, AloneStaysAsItWas
<1>12. CatalogStep
  <2>1. ShapesStay
    BY <1>5 DEF ShapesStay, Rows
  <2>2. CodesWereVacant /\ OpeningsAreFirst
    BY <1>1 DEF CodesWereVacant, OpeningsAreFirst
  <2>3. moved \subseteq {o \in Products : product'[o] # NoRow}
    BY <1>1, <1>5, MovedIsPresent
  <2> QED BY <2>1, <2>2, <2>3 DEF CatalogStep
<1> QED BY <1>6, <1>8, <1>9, <1>10, <1>11, <1>12 DEF CatalogInv

\* What a request inserts when nothing refuses it.
Inserts(e, j) ==
    /\ ~ (Adds(j) /\ IF j.qty > 0 THEN ~ Takes(j.p, j.form, Place(j)) ELSE stock[Place(j)] # NoRow)
    /\ product' = [product EXCEPT ![j.p] = j.form]
    /\ variant' = SavedVariants(j)
    /\ stock' = IF Adds(j) THEN [stock EXCEPT ![Place(j)] = OnHand(Place(j)) + j.qty] ELSE stock
    /\ moved' = IF Adds(j) /\ j.qty > 0 THEN moved \cup {j.p} ELSE moved
    /\ job' = [job EXCEPT ![e] = NoRow]
    /\ locked' = Unlocked(e)

\* It changes its product, its variant and the place of its opening stock.
LEMMA InsertChanges ==
    ASSUME CatalogTypes, NEW e \in Editors, NEW j \in Job, Promised(e, j), Inserts(e, j)
    PROVE  /\ j.p \in Products /\ j.form \in Product
           /\ Place(j) \in Products \cup Variants
           /\ Place(j) = IF j.v = NoRow THEN j.p ELSE j.v
           /\ product'[j.p] = j.form
           /\ \A p \in Products : p # j.p => product'[p] = product[p]
           /\ j.v # NoRow =>
                 j.v \in Variants
                 /\ variant'[j.v] = [of |-> j.p, shade |-> j.shade, sku |-> j.vsku]
           /\ \A v \in Variants : v # j.v => variant'[v] = variant[v]
           /\ \A x \in Products \cup Variants : x # Place(j) => stock'[x] = stock[x]
           /\ \A p \in Products : p # j.p => (p \in moved' <=> p \in moved)
<1>1. /\ j.p \in Products /\ j.form \in Product /\ j.v \in Variants \cup {NoRow}
      /\ (j.shade = NoRow <=> j.v = NoRow)
  BY DEF Promised, Job
<1>2. Place(j) \in Products \cup Variants /\ Place(j) = IF j.v = NoRow THEN j.p ELSE j.v
  BY <1>1 DEF Place
<1>3. product'[j.p] = j.form /\ \A p \in Products : p # j.p => product'[p] = product[p]
  BY <1>1 DEF Inserts, CatalogTypes
<1>4. j.v # NoRow =>
         j.v \in Variants /\ variant'[j.v] = [of |-> j.p, shade |-> j.shade, sku |-> j.vsku]
  BY <1>1 DEF Inserts, SavedVariants, CatalogTypes
<1>5. \A v \in Variants : v # j.v => variant'[v] = variant[v]
  BY <1>1 DEF Inserts, SavedVariants, CatalogTypes
<1>6. \A x \in Products \cup Variants : x # Place(j) => stock'[x] = stock[x]
  BY DEF Inserts, CatalogTypes
<1>7. \A p \in Products : p # j.p => (p \in moved' <=> p \in moved)
  BY DEF Inserts
<1> QED BY <1>1, <1>2, <1>3, <1>4, <1>5, <1>6, <1>7

LEMMA InsertTypes ==
    ASSUME CatalogTypes, NEW e \in Editors, NEW j \in Job, Promised(e, j), Inserts(e, j)
    PROVE  CatalogTypes'
<1>1. /\ j.p \in Products /\ j.form \in Product /\ j.vsku \in Codes /\ j.qty \in {0, 1}
      /\ j.v \in Variants \cup {NoRow} /\ j.shade \in Shades \cup {NoRow}
      /\ (j.shade = NoRow <=> j.v = NoRow)
  BY DEF Promised, Job
<1>2. product' \in [Products -> Product \cup {NoRow}]
  BY <1>1 DEF Inserts, CatalogTypes
<1>3. variant' \in [Variants -> Variant \cup {NoRow}]
  <2>1. CASE j.v = NoRow
    BY <2>1 DEF Inserts, SavedVariants, CatalogTypes
  <2>2. CASE j.v # NoRow
    <3>1. PICK row : row = [of |-> j.p, shade |-> j.shade, sku |-> j.vsku]
      OBVIOUS
    <3>2. row \in Variant
      BY <1>1, <2>2, <3>1 DEF Variant
    <3>3. variant' = [variant EXCEPT ![j.v] = row]
      BY <2>2, <3>1 DEF Inserts, SavedVariants
    <3> QED BY <3>2, <3>3 DEF CatalogTypes
  <2> QED BY <2>1, <2>2
<1>4. stock' \in [Products \cup Variants -> Nat \cup {NoRow}]
  <2>1. Place(j) \in Products \cup Variants
    BY InsertChanges
  <2>2. OnHand(Place(j)) \in Nat
    BY <2>1 DEF OnHand, CatalogTypes
  <2>3. PICK q \in Nat : q = OnHand(Place(j)) + j.qty
    BY <1>1, <2>2
  <2>4. stock' = [stock EXCEPT ![Place(j)] = q] \/ stock' = stock
    BY <2>3 DEF Inserts
  <2> QED BY <2>1, <2>4 DEF CatalogTypes
<1>5. moved' \subseteq Products /\ job' \in [Editors -> Job \cup {NoRow}]
  BY <1>1 DEF Inserts, CatalogTypes
<1>6. locked' \in [Products -> Editors \cup {NoRow}]
  BY DEF Inserts, Unlocked, CatalogTypes
<1> QED BY <1>2, <1>3, <1>4, <1>5, <1>6 DEF CatalogTypes

LEMMA InsertLeavesOthers ==
    ASSUME CatalogTypes, NEW e \in Editors, NEW j \in Job, Promised(e, j), Inserts(e, j),
           NEW p \in Products, p # j.p
    PROVE  LeavesAlone(p)
<1>1. Products \cap Variants = {} /\ j.p \in Products
  BY CatalogConstants DEF Promised
<1>2. product'[p] = product[p] /\ (p \in moved' <=> p \in moved)
  BY InsertChanges
<1>3. Place(j) = (IF j.v = NoRow THEN j.p ELSE j.v) /\ (j.v # NoRow => j.v \in Variants)
  BY InsertChanges
<1>4. stock'[p] = stock[p]
  <2>1. p # Place(j)
    BY <1>1, <1>3
  <2> QED BY <2>1, InsertChanges
<1>5. ASSUME NEW v \in Variants, variant[v] # NoRow, variant[v].of = p
      PROVE  variant'[v] = variant[v] /\ stock'[v] = stock[v]
  <2>1. v # j.v
    <3>1. j.v # NoRow => VariantFits(j.p, j.v)
      BY DEF Promised
    <3> QED BY <1>5, <3>1, CatalogConstants DEF VariantFits
  <2>2. v # Place(j)
    BY <2>1, <1>1, <1>3
  <2> QED BY <2>1, <2>2, InsertChanges
<1>6. ASSUME NEW v \in Variants, variant'[v] # NoRow, variant'[v].of = p
      PROVE  variant'[v] = variant[v]
  <2>1. v # j.v
    <3>1. SUFFICES ASSUME v = j.v PROVE FALSE
      OBVIOUS
    <3>2. j.v # NoRow
      BY <3>1, CatalogConstants
    <3>3. variant'[v] = [of |-> j.p, shade |-> j.shade, sku |-> j.vsku]
      BY <3>1, <3>2, InsertChanges
    <3> QED BY <3>3, <1>6
  <2> QED BY <2>1, InsertChanges
<1> QED BY <1>2, <1>4, <1>5, <1>6 DEF LeavesAlone

LEMMA InsertKeepsJobs ==
    ASSUME CatalogInv, NEW e \in Editors, NEW j \in Job, j = job[e], job[e] # NoRow,
           Promised(e, j), Inserts(e, j)
    PROVE  JobsHold' /\ VariantsDiffer'
<1>1. CatalogTypes
  BY DEF CatalogInv
<1>2. job'[e] = NoRow /\ \A o \in Editors : o # e => job'[o] = job[o]
  BY <1>1 DEF Inserts, CatalogTypes
<1>3. \A p \in Products : locked'[p] = IF locked[p] = e THEN NoRow ELSE locked[p]
  BY DEF Inserts, Unlocked
<1>4. JobsHold'
  <2> SUFFICES ASSUME NEW o \in Editors, job'[o] # NoRow
               PROVE  \E q : q = job'[o] /\ JobHolds(o, q)'
    BY JobsHoldNext
  <2>1. o # e /\ job'[o] = job[o] /\ job[o] # NoRow /\ JobsHold
    BY <1>2 DEF CatalogInv
  <2>2. job[o].decided =>
           job[o].p \in Products /\ job[o].p # j.p /\ locked'[job[o].p] = o
    <3>1. job[o].decided => job[o].p \in Products /\ locked[job[o].p] = o
      BY <2>1 DEF JobsHold, JobHolds, Promised
    <3>2. locked[j.p] = e
      BY DEF Promised
    <3> QED BY <1>3, <2>1, <3>1, <3>2
  <2>3. job[o].v # NoRow => variant'[job[o].v] = variant[job[o].v]
    <3>1. job[o].v # NoRow => job[o].v # j.v /\ job[o].v \in Variants
      BY <1>1, <2>1, JobFields DEF CatalogInv, VariantsDiffer
    <3> QED BY <1>1, <3>1, InsertChanges
  <2>4. job[o].decided => LeavesAlone(job[o].p)
    BY <1>1, <2>2, InsertLeavesOthers
  <2> QED BY <2>1, <2>2, <2>3, <2>4, JobHoldsOn
<1>5. VariantsDiffer'
  BY <1>2 DEF CatalogInv, VariantsDiffer
<1> QED BY <1>4, <1>5

LEMMA InsertKeepsRows ==
    ASSUME CatalogInv, NEW e \in Editors, NEW j \in Job, Promised(e, j), Inserts(e, j)
    PROVE  RowsHold'
<1>1. CatalogTypes /\ Products \cap Variants = {}
  BY CatalogConstants DEF CatalogInv
<1>2. j.form # NoRow /\ j.p \in Products /\ product'[j.p] = j.form
  BY <1>1, InsertChanges, CatalogConstants
<1>3. ASSUME NEW p \in Products, product'[p] = NoRow
      PROVE  stock'[p] = NoRow /\ p \notin moved'
  <2>1. p # j.p
    BY <1>2, <1>3
  <2>2. LeavesAlone(p)
    BY <1>1, <2>1, InsertLeavesOthers
  <2> QED BY <1>3, <2>2 DEF LeavesAlone, CatalogInv, RowsHold
<1>4. ASSUME NEW v \in Variants, variant'[v] # NoRow
      PROVE  product'[variant'[v].of] # NoRow
  <2>1. CASE v = j.v
    <3>1. j.v # NoRow
      BY <2>1, CatalogConstants
    <3>2. variant'[v] = [of |-> j.p, shade |-> j.shade, sku |-> j.vsku]
      BY <1>1, <2>1, <3>1, InsertChanges
    <3> QED BY <1>2, <3>2
  <2>2. CASE v # j.v
    <3>1. variant'[v] = variant[v]
      BY <1>1, <2>2, InsertChanges
    <3>2. v \in VariantRows
      BY <1>4, <3>1 DEF VariantRows
    <3>3. variant[v].of \in Products /\ product[variant[v].of] # NoRow
      BY <1>1, <3>2, VariantFields DEF CatalogInv, RowsHold
    <3>4. \A p \in Products : p # j.p => product'[p] = product[p]
      BY <1>1, InsertChanges
    <3>5. PICK p \in Products : p = variant[v].of
      BY <3>3
    <3> QED BY <1>2, <3>1, <3>3, <3>4, <3>5
  <2> QED BY <2>1, <2>2
<1>5. \A v \in VariantRows' : product'[variant'[v].of] # NoRow
  BY <1>4 DEF VariantRows
<1> QED BY <1>3, <1>5 DEF RowsHold

LEMMA InsertKeepsMeters ==
    ASSUME CatalogInv, NEW e \in Editors, NEW j \in Job, Promised(e, j), Inserts(e, j)
    PROVE  MeterStockHasItsVariant'
<1>1. CatalogTypes /\ Products \cap Variants = {}
  BY CatalogConstants DEF CatalogInv
<1> SUFFICES ASSUME NEW p \in Products, product'[p] # NoRow, IsMeterTailoring(product'[p])
             PROVE  (IF product[p].kind = "variant" THEN OnHand(p) = 0 ELSE VariantsOf(p) = {})'
  BY DEF MeterStockHasItsVariant, Rows
<1>2. CASE p # j.p
  <2>1. LeavesAlone(p)
    BY <1>1, <1>2, InsertLeavesOthers
  <2>2. product'[p] = product[p]
    BY <2>1 DEF LeavesAlone
  <2>3. IF product[p].kind = "variant" THEN OnHand(p) = 0 ELSE VariantsOf(p) = {}
    BY <2>2 DEF CatalogInv, MeterStockHasItsVariant, Rows
  <2> QED BY <2>1, <2>2, <2>3, AloneStaysAsItWas
<1>3. CASE p = j.p
  <2>1. product'[p] = j.form /\ IsMeterTailoring(j.form)
    BY <1>1, <1>3, InsertChanges
  <2>2. /\ j.form.kind = "variant" => OnHand(p) = 0
        /\ j.form.kind # "variant" => VariantsOf(p) = {}
    BY <1>3, <2>1 DEF Promised, ShapeFits
  <2>3. CASE j.form.kind = "variant"
    <3>1. CASE stock'[p] = stock[p]
      BY <2>1, <2>2, <2>3, <3>1 DEF OnHand
    <3>2. CASE stock'[p] # stock[p]
      <4>1. p = Place(j)
        BY <1>1, <3>2, InsertChanges
      <4>2. Adds(j) /\ stock' = [stock EXCEPT ![p] = OnHand(p) + j.qty]
        BY <3>2, <4>1 DEF Inserts
      <4>3. ~ Takes(j.p, j.form, Place(j))
        BY <1>3, <2>1, <2>3, <4>1 DEF Takes
      <4>4. j.qty = 0
        <5>1. ~ (j.qty > 0)
          BY <4>2, <4>3 DEF Inserts
        <5>2. j.qty \in {0, 1}
          BY DEF Job
        <5> QED BY <5>1, <5>2
      <4>5. stock'[p] = 0
        BY <1>1, <2>2, <2>3, <4>2, <4>4 DEF CatalogTypes
      <4> QED BY <2>1, <2>3, <4>5 DEF OnHand
    <3> QED BY <3>1, <3>2
  <2>4. CASE j.form.kind # "variant"
    <3>1. j.v = NoRow
      BY <2>4 DEF Promised
    <3>2. variant' = variant
      BY <3>1 DEF Inserts, SavedVariants
    <3>3. VariantsOf(p)' = {}
      BY <2>2, <2>4, <3>2 DEF VariantsOf, VariantRows
    <3> QED BY <2>1, <2>4, <3>3
  <2> QED BY <2>3, <2>4
<1> QED BY <1>2, <1>3

LEMMA InsertSteps ==
    ASSUME CatalogInv, NEW e \in Editors, NEW j \in Job, j = job[e], job[e] # NoRow,
           Promised(e, j), Inserts(e, j)
    PROVE  CatalogStep
<1>1. CatalogTypes /\ Products \cap Variants = {}
  BY CatalogConstants DEF CatalogInv
<1>2. j.form # NoRow /\ j.p \in Products /\ product'[j.p] = j.form
  BY <1>1, InsertChanges, CatalogConstants
<1>3. \A p \in Products : p # j.p => product'[p] = product[p]
  BY <1>1, InsertChanges
<1>4. ShapesStay
  <2> SUFFICES ASSUME NEW p \in Products, product[p] # NoRow,
                      HasHistory(p) \/ VariantsOf(p) # {},
                      IsMeter(product[p]) \/ IsMeter(product'[p])
               PROVE  product'[p].kind = product[p].kind /\ product'[p].unit = product[p].unit
    BY DEF ShapesStay, Rows
  <2>1. CASE p # j.p
    BY <1>3, <2>1
  <2>2. CASE p = j.p
    BY <1>2, <2>2 DEF Promised, ShapeFits
  <2> QED BY <2>1, <2>2
<1>5. \A o \in Editors : job[o] # NoRow /\ job'[o] = NoRow => o = e
  BY <1>1 DEF Inserts, CatalogTypes
<1>6. \A p \in Products : NewCode(product'[p], product[p]) => product'[p].sku \in j.vacant
  <2> SUFFICES ASSUME NEW p \in Products, NewCode(product'[p], product[p])
               PROVE  product'[p].sku \in j.vacant
    OBVIOUS
  <2>1. CASE p # j.p
    BY <1>3, <2>1 DEF NewCode
  <2>2. CASE p = j.p
    BY <1>2, <2>2 DEF Promised
  <2> QED BY <2>1, <2>2
<1>7. \A v \in Variants : NewCode(variant'[v], variant[v]) => variant'[v].sku \in j.vacant
  <2> SUFFICES ASSUME NEW v \in Variants, NewCode(variant'[v], variant[v])
               PROVE  variant'[v].sku \in j.vacant
    OBVIOUS
  <2>1. CASE v # j.v
    <3>1. variant'[v] = variant[v]
      BY <1>1, <2>1, InsertChanges
    <3> QED BY <3>1 DEF NewCode
  <2>2. CASE v = j.v
    <3>1. j.v # NoRow
      BY <2>2, CatalogConstants
    <3>2. variant'[v] = [of |-> j.p, shade |-> j.shade, sku |-> j.vsku]
      BY <1>1, <2>2, <3>1, InsertChanges
    <3>3. variant'[v].sku = j.vsku
      BY <3>2
    <3> QED BY <2>2, <3>1, <3>3 DEF Promised, NewCode
  <2> QED BY <2>1, <2>2
<1>8. CodesWereVacant
  BY <1>5, <1>6, <1>7 DEF CodesWereVacant
<1>9. \A x \in Products \cup Variants :
         stock[x] # NoRow /\ stock'[x] # stock[x] => OnOldLook(j)
  <2> SUFFICES ASSUME NEW x \in Products \cup Variants, stock[x] # NoRow, stock'[x] # stock[x]
               PROVE  OnOldLook(j)
    OBVIOUS
  <2>1. x = Place(j)
    BY <1>1, InsertChanges
  <2>2. Adds(j)
    BY DEF Inserts
  <2> QED BY <2>1, <2>2 DEF Adds
<1>10. OpeningsAreFirst
  BY <1>5, <1>9 DEF OpeningsAreFirst
<1>11. moved \subseteq {p \in Products : product'[p] # NoRow}
  BY <1>2, <1>3, MovedIsPresent
<1> QED BY <1>4, <1>8, <1>10, <1>11 DEF CatalogStep

LEMMA CommitHolds ==
    ASSUME CatalogInv, NEW e \in Editors, Commit(e)
    PROVE  CatalogInv' /\ CatalogStep
<1>1. PICK j : j = job[e]
  OBVIOUS
<1>2. job[e] # NoRow /\ job[e].decided
  BY DEF Commit
<1>3. CASE GiveUp(e)
  BY <1>3, GiveUpHolds, QuietStep
<1>4. CASE Inserts(e, j)
  <2>1. j \in Job /\ CatalogTypes
    BY <1>1, <1>2, JobFields DEF CatalogInv
  <2>2. Promised(e, j)
    BY <1>1, <1>2 DEF CatalogInv, JobsHold, JobHolds
  <2>3. CatalogTypes' /\ RowsHold' /\ MeterStockHasItsVariant'
    BY <1>4, <2>1, <2>2, InsertTypes, InsertKeepsRows, InsertKeepsMeters
  <2>4. JobsHold' /\ VariantsDiffer' /\ CatalogStep
    BY <1>1, <1>2, <1>4, <2>1, <2>2, InsertKeepsJobs, InsertSteps
  <2> QED BY <2>3, <2>4 DEF CatalogInv
<1>5. GiveUp(e) \/ Inserts(e, j)
  BY <1>1 DEF Commit, Inserts
<1> QED BY <1>3, <1>4, <1>5

-----------------------------------------------------------------------------
\* All steps.

LEMMA CatalogInitially == CatalogInit => CatalogInv
<1> SUFFICES ASSUME CatalogInit PROVE CatalogInv
  OBVIOUS
<1>1. PICK p \in Products, row \in Product \cup {NoRow} :
         /\ row # NoRow => row.kind = "standard" /\ row.sku < 2 /\ row.unit # "meter"
         /\ product = [o \in Products |-> IF o = p THEN row ELSE NoRow]
         /\ moved \in SUBSET IF row = NoRow THEN {} ELSE {p}
         /\ stock = [x \in Products \cup Variants |-> IF x \in moved THEN 1 ELSE NoRow]
  BY DEF CatalogInit
<1>2. /\ variant = [v \in Variants |-> NoRow]
      /\ job = [e \in Editors |-> NoRow]
      /\ locked = [o \in Products |-> NoRow]
  BY DEF CatalogInit
<1>3. CatalogTypes
  <2>1. product \in [Products -> Product \cup {NoRow}] /\ moved \subseteq Products
    BY <1>1
  <2>2. stock \in [Products \cup Variants -> Nat \cup {NoRow}]
    BY <1>1
  <2> QED BY <1>2, <2>1, <2>2 DEF CatalogTypes
<1>4. VariantRows = {} /\ \A o \in Products : VariantsOf(o) = {}
  BY <1>2 DEF VariantRows, VariantsOf
<1>5. RowsHold
  <2>1. \A o \in Products : product[o] = NoRow => o \notin moved
    BY <1>1
  <2> QED BY <1>1, <1>4, <2>1 DEF RowsHold
<1>6. JobsHold /\ VariantsDiffer
  BY <1>2 DEF JobsHold, VariantsDiffer
<1>7. MeterStockHasItsVariant
  BY <1>1 DEF MeterStockHasItsVariant, Rows, IsMeterTailoring
<1> QED BY <1>3, <1>5, <1>6, <1>7 DEF CatalogInv

LEMMA CatalogStutters ==
    ASSUME CatalogInv, UNCHANGED catalogVars
    PROVE  CatalogInv' /\ CatalogStep
<1>1. UNCHANGED <<product, variant, stock, moved>> /\ job' = job /\ locked' = locked
  BY DEF catalogVars
<1>2. CatalogStep
  BY <1>1, QuietStep
<1>3. RowsHold' /\ MeterStockHasItsVariant'
  BY <1>1, RowsUnchanged DEF CatalogInv
<1>4. CatalogTypes' /\ VariantsDiffer'
  BY <1>1 DEF CatalogInv, CatalogTypes, VariantsDiffer
<1>5. JobsHold'
  <2> SUFFICES ASSUME NEW o \in Editors, job'[o] # NoRow
               PROVE  \E q : q = job'[o] /\ JobHolds(o, q)'
    BY JobsHoldNext
  <2>1. job'[o] = job[o] /\ JobsHold /\ job[o] # NoRow
    BY <1>1 DEF CatalogInv
  <2>2. job[o].decided => locked'[job[o].p] = o
    BY <1>1, <2>1 DEF JobsHold, JobHolds, Promised
  <2> QED BY <1>1, <2>1, <2>2, UnchangedIsAlone, JobHoldsOn
<1> QED BY <1>2, <1>3, <1>4, <1>5 DEF CatalogInv

LEMMA CatalogHolds ==
    ASSUME CatalogInv, [CatalogNext]_catalogVars
    PROVE  CatalogInv' /\ CatalogStep
<1>1. ASSUME NEW e \in Editors, OpenForm(e) PROVE CatalogInv' /\ CatalogStep
  <2>1. UNCHANGED <<product, variant, stock, moved>>
    BY <1>1 DEF OpenForm, Start
  <2> QED BY <1>1, <2>1, OpenFormHolds, QuietStep
<1>2. ASSUME NEW e \in Editors, OpenVariantForm(e) PROVE CatalogInv' /\ CatalogStep
  <2>1. UNCHANGED <<product, variant, stock, moved>>
    BY <1>2 DEF OpenVariantForm, Start
  <2> QED BY <1>2, <2>1, OpenVariantFormHolds, QuietStep
<1>3. ASSUME NEW e \in Editors, ReadRow(e) PROVE CatalogInv' /\ CatalogStep
  <2>1. UNCHANGED <<product, variant, stock, moved>>
    BY <1>3 DEF ReadRow, Start
  <2> QED BY <1>3, <2>1, ReadRowHolds, QuietStep
<1>4. ASSUME NEW e \in Editors, DecideEdit(e) PROVE CatalogInv' /\ CatalogStep
  BY <1>4, DecideEditHolds, QuietStep
<1>5. ASSUME NEW e \in Editors, DecideNew(e) PROVE CatalogInv' /\ CatalogStep
  BY <1>5, DecideNewHolds, QuietStep
<1>6. ASSUME NEW e \in Editors, DecideVariant(e) PROVE CatalogInv' /\ CatalogStep
  BY <1>6, DecideVariantHolds, QuietStep
<1>7. ASSUME NEW e \in Editors, DecideRow(e) PROVE CatalogInv' /\ CatalogStep
  BY <1>7, DecideRowHolds, QuietStep
<1>8. ASSUME NEW e \in Editors, DecideNewRow(e) PROVE CatalogInv' /\ CatalogStep
  BY <1>8, DecideNewRowHolds, QuietStep
<1>9. ASSUME NEW e \in Editors, Commit(e) PROVE CatalogInv' /\ CatalogStep
  BY <1>9, CommitHolds
<1>10. ASSUME NEW e \in Editors, GiveUp(e) PROVE CatalogInv' /\ CatalogStep
  BY <1>10, GiveUpHolds, QuietStep
<1>11. ASSUME NEW p \in Products, Delete(p) PROVE CatalogInv' /\ CatalogStep
  BY <1>11, DeleteHolds
<1>12. ASSUME NEW p \in Products, Move(p) PROVE CatalogInv' /\ CatalogStep
  BY <1>12, MoveHolds
<1>13. CASE UNCHANGED catalogVars
  BY <1>13, CatalogStutters
<1>14. CASE CatalogNext
  BY <1>1, <1>2, <1>3, <1>4, <1>5, <1>6, <1>7, <1>8, <1>9, <1>10, <1>11, <1>12, <1>14
     DEF CatalogNext
<1> QED BY <1>13, <1>14

\* Between its decision and its insertion a request holds the row of its
\* product; what it found there (the shape, the stock, the variants) is still
\* so when it inserts, and no two requests insert the same variant.
THEOREM CatalogInvariant == CatalogInit /\ [][CatalogNext]_catalogVars => []CatalogInv
<1>1. CatalogInit => CatalogInv
  BY CatalogInitially
<1>2. CatalogInv /\ [CatalogNext]_catalogVars => CatalogInv'
  BY CatalogHolds
<1> QED BY <1>1, <1>2, PTL

\* Whoever edits, imports, deletes and moves, in whatever order: the stock of a
\* Meter product lies with its variants, a product in meters keeps its shape
\* from its first history on, what has history stays, a new code was free while
\* the request was at work, and an opening is the first stock of its place,
\* except for an import that looked before it locked.
THEOREM CatalogStaysTogether ==
    CatalogInit /\ [][CatalogNext]_catalogVars => CatalogHoldsTogether
<1>1. CatalogInv => MeterStockHasItsVariant
  BY DEF CatalogInv
<1>2. CatalogInv /\ [CatalogNext]_catalogVars =>
         [ShapesStay /\ CodesWereVacant /\ OpeningsAreFirst
          /\ moved \subseteq {p \in Products : product'[p] # NoRow}]_catalogVars
  BY CatalogHolds DEF CatalogStep
<1> QED BY <1>1, <1>2, CatalogInvariant, PTL DEF CatalogHoldsTogether
=============================================================================
