---------------------------- MODULE Subscriptions ----------------------------
(***************************************************************************)
(* Who may use the application: the subscription of a business, what the   *)
(* platform does to it (apps/platformadmin/views.py), the reversal of its  *)
(* payments (apps/subscriptions/services.py) and the decision that every   *)
(* request asks for (apps/subscriptions/access.py and middleware.py).      *)
(*                                                                         *)
(* business_action locks the business, and a reversal locks payment and    *)
(* subscription and needs the business for its audit row: one waits for    *)
(* the other, or the database ends one of them, so that each is one step.  *)
(* Time is counted in days.  What WMS provisions for a plan is left out.   *)
(***************************************************************************)
EXTENDS Integers, Sequences, FiniteSets, Functions

CONSTANTS
    Nothing,        \* NULL
    Plans,          \* identities of plans
    PlanRows,       \* bound: rows that the plan form saves
    Modules,        \* FEATURE_REGISTRY
    Needs,          \* the dependencies of a module
    DerivedFrom,    \* derived_from of a module, or Nothing
    GraceDays,      \* Subscription.grace_days
    TrialDays,      \* Plan.trial_days
    ActivationDays, \* the days of a reactivation
    Terms,          \* bound: days of a renewal or an extension
    SameZone,       \* the business lives in the time zone of the database
    LastDay,        \* bound: days that pass
    LastEnd,        \* bound: the latest end of a period or trial
    MaxReceipts     \* bound: payments

Denied == "denied"
ReadOnly == "read_only"
Full == "full"

Days == Nat \cup {Nothing}
Plan == [on : BOOLEAN, allowsTrial : BOOLEAN, seats : Nat, features : SUBSET Modules]
SubscriptionStatus == {"trial", "active", "suspended"}
Subscription == [plan : Plans, status : SubscriptionStatus, trialEnds : Days,
                 start : Days, end : Days]

\* before and after are the snapshots, which older rows do not have, and
\* local says that after was written in the zone of the business.
\* reversedAt is the position among the reversals.
Receipt == [start : Days, end : Days, before : Subscription \cup {Nothing},
            after : Subscription \cup {Nothing}, local : BOOLEAN, reversedAt : Days]

ASSUME SubscriptionConstants ==
    /\ PlanRows \subseteq Plan
    /\ Needs \in [Modules -> SUBSET Modules]
    /\ DerivedFrom \in [Modules -> Modules \cup {Nothing}]
    /\ {GraceDays, TrialDays, ActivationDays, LastDay, LastEnd, MaxReceipts} \subseteq Nat
    /\ Terms \subseteq Nat \ {0} /\ SameZone \in BOOLEAN
    /\ Nothing \notin Nat \cup Subscription

VARIABLES
    today,
    plan,           \* Plan rows
    expiryMode,     \* PlatformConfig.expiry_mode
    open,           \* Business.is_active
    copy,           \* is_active as a profile form in progress read it, or Nothing
    sub,            \* the Subscription
    receipt,        \* SubscriptionPayment rows, as a sequence
    barred,         \* history: the last word of the platform was to suspend
    free            \* history: ends of periods that no payment brought

subscriptionVars ==
    <<today, plan, expiryMode, open, copy, sub, receipt, barred, free>>

Fresh(p, row) ==
    [plan |-> p, status |-> IF row.allowsTrial THEN "trial" ELSE "active",
     trialEnds |-> IF row.allowsTrial THEN TrialDays ELSE Nothing,
     start |-> 0, end |-> Nothing]

\* A new business, on trial or not, or one that paid before there were snapshots.
SubscriptionsInit ==
    /\ today = 0 /\ expiryMode = ReadOnly /\ open = TRUE
    /\ copy = Nothing /\ barred = FALSE
    /\ plan \in [Plans -> PlanRows]
    /\ \E p \in Plans :
        \/ /\ plan[p].on /\ sub = Fresh(p, plan[p])
           /\ receipt = <<>> /\ free = {Nothing}
        \/ /\ sub = [plan |-> p, status |-> "active", trialEnds |-> Nothing,
                     start |-> 0, end |-> 1]
           /\ receipt = << [start |-> 0, end |-> 1, before |-> Nothing, after |-> Nothing,
                            local |-> FALSE, reversedAt |-> Nothing] >>
           /\ free = {0}

-----------------------------------------------------------------------------
(* The decision                                                            *)

Past(day) == day # Nothing /\ day < today

\* effective_status; GraceDays follow a period and not a trial.
EffectiveStatus ==
    CASE sub.status = "trial" /\ Past(sub.trialEnds) -> "expired"
      [] sub.status = "active" /\ Past(sub.end) ->
            IF today <= sub.end + GraceDays THEN "grace" ELSE "expired"
      [] OTHER -> sub.status

IsOperational == open /\ EffectiveStatus \in {"trial", "active", "grace"}

SubscriptionMode ==
    CASE sub.status = "trial" ->
            IF plan[sub.plan].allowsTrial /\ sub.trialEnds # Nothing /\ sub.trialEnds > today
            THEN Full ELSE Denied
      [] EffectiveStatus \in {"active", "grace"} -> Full
      [] EffectiveStatus = "expired" -> IF expiryMode = ReadOnly THEN ReadOnly ELSE Denied
      [] OTHER -> Denied

AccessMode == IF open /\ plan[sub.plan].on THEN SubscriptionMode ELSE Denied

\* _dependency_keys, and one round of the loop in calculate_effective_modules:
\* derived modules come in, then those with an unmet dependency go.
Requires(m) == Needs[m] \cup ({DerivedFrom[m]} \ {Nothing})
Round(ms) ==
    LET more == ms \cup {m \in Modules : DerivedFrom[m] \in ms}
    IN  {m \in more : Requires(m) \subseteq more}

Settled[ms \in SUBSET Modules] == IF Round(ms) = ms THEN ms ELSE Settled[Round(ms)]
ModulesOf == [features \in SUBSET Modules |->
                 Settled[{m \in features : DerivedFrom[m] = Nothing}]]
EffectiveModules == ModulesOf[plan[sub.plan].features]

\* evaluate_access, for a member whose role and scope allow it.
Allowed(writes, modules) ==
    /\ AccessMode # Denied
    /\ AccessMode = ReadOnly => ~ writes
    /\ modules # {} /\ modules \subseteq EffectiveModules

\* evaluate_public_access, for documents that are shown without a member;
\* HasSubscriptionModuleAccess; and what the templates offer.
PublicAllows(writes, modules) ==
    /\ open /\ plan[sub.plan].on /\ SubscriptionMode # Denied
    /\ writes => SubscriptionMode # ReadOnly
    /\ modules # {} /\ modules \subseteq EffectiveModules

ApiAllows(writes, modules) == modules # {} /\ Allowed(writes, {"api_access"} \cup modules)
CanWrite(modules) == AccessMode = Full /\ modules \subseteq EffectiveModules

\* SubscriptionMiddleware, for the views without a guard of their own.
LetThrough(writes) == IsOperational \/ (expiryMode = ReadOnly /\ ~ writes)

-----------------------------------------------------------------------------
(* What the platform does                                                  *)

Room == Len(receipt) < MaxReceipts
InRange(day) == day # Nothing => day <= LastEnd

\* record_subscription_payment
PaidFor(before, after, local) ==
    /\ Room
    /\ receipt' = Append(receipt, [start |-> after.start, end |-> after.end, before |-> before,
                                   after |-> after, local |-> local, reversedAt |-> Nothing])
    /\ UNCHANGED free

Unpaid(end) == free' = free \cup {end} /\ UNCHANGED receipt

Suspend ==
    /\ open' = FALSE /\ barred' = TRUE
    /\ sub' = [sub EXCEPT !.status = "suspended"]
    /\ UNCHANGED <<today, plan, expiryMode, copy, receipt, free>>

\* A subscription that was not suspended is left as it is.
Activate ==
    /\ open' = TRUE /\ barred' = FALSE
    /\ IF sub.status # "suspended" THEN UNCHANGED <<sub, receipt, free>>
       ELSE IF sub.end = Nothing \/ Past(sub.end)
       THEN /\ sub' = [sub EXCEPT !.status = "active", !.start = today,
                                  !.end = today + ActivationDays]
            /\ Unpaid(sub'.end)
       ELSE sub' = [sub EXCEPT !.status = "active"] /\ UNCHANGED <<receipt, free>>
    /\ UNCHANGED <<today, plan, expiryMode, copy>>

\* default_renewal_start
RenewalStart == IF sub.end # Nothing /\ sub.end > today THEN sub.end ELSE today

\* The plans and the periods that the forms of a renewal and a change offer.
Offered == {p \in Plans : plan[p].on}
Periods == {period \in {[start |-> s, end |-> s + days] : s \in {RenewalStart, today},
                                                           days \in Terms} :
               InRange(period.end)}

Renew == \E p \in Offered, period \in Periods :
    /\ sub' = [plan |-> p, status |-> "active", trialEnds |-> Nothing,
               start |-> period.start, end |-> period.end]
    /\ open' = TRUE /\ barred' = FALSE
    /\ PaidFor(sub, sub', ~ SameZone)
    /\ UNCHANGED <<today, plan, expiryMode, copy>>

\* A payment for it, or another one, carries no end of a period, so that its
\* reversal changes nothing else: such rows are left out.
ChangePlan == \E p \in Offered \ {sub.plan} :
    /\ sub' = [sub EXCEPT !.plan = p]
    /\ UNCHANGED <<today, plan, expiryMode, open, copy, receipt, barred, free>>

Later(day) == IF day = Nothing \/ Past(day) THEN today ELSE day

Extend == \E p \in Offered \cup {sub.plan}, days \in Terms :
    /\ InRange(Later(sub.end) + days)
    /\ sub' = [sub EXCEPT !.plan = p, !.status = "active", !.start = today,
                          !.end = Later(sub.end) + days]
    /\ barred' = FALSE
    /\ PaidFor(sub, sub', FALSE) \/ Unpaid(sub'.end)
    /\ UNCHANGED <<today, plan, expiryMode, open, copy>>

ExtendTrial == \E days \in Terms :
    /\ InRange(Later(sub.trialEnds) + days)
    /\ sub' = [sub EXCEPT !.status = "trial", !.trialEnds = Later(sub.trialEnds) + days]
    /\ barred' = FALSE
    /\ UNCHANGED <<today, plan, expiryMode, open, copy, receipt, free>>

\* plan_form and platform_settings
SavePlan == \E p \in Plans, row \in PlanRows :
    /\ plan' = [plan EXCEPT ![p] = row]
    /\ UNCHANGED <<today, expiryMode, open, copy, sub, receipt, barred, free>>

SaveExpiryMode ==
    /\ expiryMode' \in {ReadOnly, "suspend"}
    /\ UNCHANGED <<today, plan, open, copy, sub, receipt, barred, free>>

-----------------------------------------------------------------------------
(* Reversing a payment                                                     *)

Reversals == Cardinality({i \in DOMAIN receipt : receipt[i].reversedAt # Nothing})
Standing(i) == receipt[i].reversedAt = Nothing

\* _state_matches compares the texts of the dates.
StateMatches(r) == ~ r.local /\ r.after = sub

\* The remaining payment whose period ends last, and of those the newest.
LatestStanding(i) ==
    LET others == {j \in DOMAIN receipt \ {i} : Standing(j)}
    IN  IF others = {} THEN Nothing
        ELSE CHOOSE j \in others : \A k \in others :
                \/ receipt[k].end < receipt[j].end
                \/ receipt[k].end = receipt[j].end /\ k <= j

PeriodOf(x) == [sub EXCEPT !.start = x.start, !.end = x.end]

RestoresAll(i) == receipt[i].before
RestoresPartly(i) ==
    IF StateMatches(receipt[i]) THEN receipt[i].before
    ELSE IF receipt[i].before.end = Nothing THEN sub ELSE PeriodOf(receipt[i].before)
Restored(i) ==
    IF StateMatches(receipt[i]) THEN receipt[i].before ELSE PeriodOf(receipt[i].before)

\* Rows from before the snapshots fall back on what else was paid.
FallBack(i) ==
    LET j == LatestStanding(i)
    IN  IF j # Nothing THEN PeriodOf(receipt[j])
        ELSE [sub EXCEPT !.start = Nothing, !.end = receipt[i].start]

\* reverse_subscription_payment
ReversePayment(i) ==
    /\ Standing(i)
    /\ receipt' = [receipt EXCEPT ![i].reversedAt = Reversals + 1]
    /\ sub' = IF receipt[i].end # sub.end THEN sub
              ELSE IF receipt[i].before # Nothing THEN Restored(i) ELSE FallBack(i)
    /\ UNCHANGED <<today, plan, expiryMode, open, copy, barred, free>>

-----------------------------------------------------------------------------
(* The business and time                                                   *)

\* tenants.views.profile_view saves all of the business as it read it.
OpenProfile ==
    /\ copy = Nothing /\ open /\ LetThrough(TRUE)
    /\ copy' = open
    /\ UNCHANGED <<today, plan, expiryMode, open, sub, receipt, barred, free>>

SaveProfile ==
    /\ copy # Nothing
    /\ open' = copy /\ copy' = Nothing
    /\ UNCHANGED <<today, plan, expiryMode, sub, receipt, barred, free>>

NextDay ==
    /\ today < LastDay /\ today' = today + 1
    /\ UNCHANGED <<plan, expiryMode, open, copy, sub, receipt, barred, free>>

SubscriptionsNext ==
    \/ Suspend \/ Activate \/ Renew \/ ChangePlan \/ Extend \/ ExtendTrial
    \/ SavePlan \/ SaveExpiryMode
    \/ \E i \in DOMAIN receipt : ReversePayment(i)
    \/ OpenProfile \/ SaveProfile \/ NextDay

-----------------------------------------------------------------------------
(* Properties                                                              *)

SubscriptionTypeOK ==
    /\ today \in 0 .. LastDay /\ open \in BOOLEAN /\ copy \in BOOLEAN \cup {Nothing}
    /\ plan \in [Plans -> Plan] /\ sub \in Subscription
    /\ receipt \in Seq(Receipt) /\ Len(receipt) <= MaxReceipts

\* The largest set of modules of which each is bought or derived and has
\* everything it needs.
Coherent(ms, features) ==
    \A m \in ms : /\ Requires(m) \subseteq ms
                  /\ DerivedFrom[m] = Nothing => m \in features
LargestCoherent ==
    {<<features, UNION {ms \in SUBSET Modules : Coherent(ms, features)}>> :
        features \in SUBSET Modules}

\* Nobody gets in, not even to read, after the platform suspended the business
\* and until it said otherwise, whatever a profile form that was open at the
\* time writes back and whichever payments are reversed.  The guards of the
\* module views and of the middleware, which are written apart, agree except on
\* what the guard refuses more: the plan and the trial; so do those of the API,
\* of public documents and of the templates.
GuardsAgree ==
    /\ barred => AccessMode = Denied /\ ~ LetThrough(TRUE)
    /\ AccessMode = Full => LetThrough(TRUE)
    /\ LetThrough(TRUE) /\ plan[sub.plan].on /\ sub.status # "trial" => AccessMode = Full
    /\ \A ms \in {EffectiveModules} \ {{}} :
          /\ Allowed(TRUE, ms) <=> CanWrite(ms)
          /\ Allowed(FALSE, ms) <=> PublicAllows(FALSE, ms)
          /\ ApiAllows(TRUE, ms) => LetThrough(TRUE)

\* The guards agree, and what they let in to is the largest set of modules that
\* the plan carries.
AccessIsEarned ==
    GuardsAgree /\ <<plan[sub.plan].features, EffectiveModules>> \in LargestCoherent

\* Payments whose period ends when the one in force does, if none of them
\* stands any more and nothing was given for free that would explain the end.
TakenBack ==
    LET bought == {i \in DOMAIN receipt : receipt[i].end = sub.end}
    IN  IF sub.end \in free \/ \E i \in bought : Standing(i) THEN {} ELSE bought

\* A period whose payments were all taken back is in force only when a later
\* payment was taken back after one of them: reversals in the order opposite to
\* the payments leave nothing behind, over plans that changed in between, dates
\* in two time zones and payments without snapshots.
ReversalsUndo == TakenBack # {} =>
    \E i \in TakenBack, j \in DOMAIN receipt :
        j > i /\ ~ Standing(j) /\ receipt[j].reversedAt > receipt[i].reversedAt

\* "[...] safely restore its subscription effect. [...] never leaves the
\* reversed period end in force" (reverse_subscription_payment).
ReversedIsOver == TakenBack = {}
=============================================================================
