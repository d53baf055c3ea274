------------------------------- MODULE Members -------------------------------
(***************************************************************************)
(* The members of a business, their roles and the seats that the plan      *)
(* sells (apps/accounts/views.py, apps/wms_core/services.py, the limits of *)
(* apps/subscriptions/services.py), while the platform changes the plan.   *)
(*                                                                         *)
(* A request reads the member, the subscription and its plan first and     *)
(* works with them to its end.  Only one that takes a seat locks the       *)
(* business, which is the row that the platform locks, too.  The owner     *)
(* sends the requests: the permissions of roles are left out.              *)
(***************************************************************************)
EXTENDS Subscriptions

CONSTANTS
    Members,        \* accounts, by their email
    Owner,          \* the one that owns the business
    OwnerRole,      \* its role, with is_owner
    SystemRoles,    \* roles with is_system
    StaffRole,      \* the one of them that WMS gives to its users
    CustomRoles,    \* other roles
    Clerks,         \* requests at work
    Absent


VARIABLES
    member,         \* Membership rows
    request,
    business,       \* the request that locks the business, or Nothing
    unseen          \* history: members that a request made active which had
                    \* read that they were active

memberVars == <<member, request, business, unseen>>

Roles == {OwnerRole} \cup SystemRoles \cup CustomRoles
Membership == [role : Roles, active : BOOLEAN]

\* The form, the member it is about, the row it wants, and what it read: the row, the
\* seats of the plan and whether the subscription works.
Request == [kind : {"create", "edit", "wms"}, who : Members, row : Membership,
            saw : Membership \cup {Absent}, limit : Nat, works : BOOLEAN,
            seated : BOOLEAN]

ASSUME MemberConstants ==
    /\ IsFiniteSet(Members) /\ Owner \in Members /\ StaffRole \in SystemRoles
    /\ Nothing \notin Clerks /\ Absent \notin Membership \cup Request

IsActive(row) == row # Absent /\ row.active
ActiveMembers == {m \in Members : IsActive(member[m])}

MembersInit ==
    /\ member \in [Members -> Membership \cup {Absent}]
    /\ \A m \in Members \ {Owner} :
          member[m] # Absent => member[m].role # OwnerRole
    /\ member[Owner] = [role |-> OwnerRole, active |-> TRUE]
    /\ request = [c \in Clerks |-> Absent]
    /\ business = Nothing /\ unseen = {}

-----------------------------------------------------------------------------

\* _require_custom_role_assignment: only a new assignment is asked about.
MayAssign(role, row) ==
    \/ role \notin CustomRoles
    \/ row # Absent /\ row.role = role
    \/ Allowed(TRUE, {"custom_roles"})

\* EmployeeForm.clean_role and clean_email
ValidForm(kind, m, role) ==
    /\ role = OwnerRole => member[m] # Absent /\ member[m].role = OwnerRole
    /\ (kind = "edit") <=> (member[m] # Absent)

Opened(c, kind, m, role, on) ==
    /\ ValidForm(kind, m, role)
    /\ kind = "wms" => on /\ role = StaffRole
    /\ MayAssign(role, member[m])
    /\ request' = [request EXCEPT ![c] =
          [kind |-> kind, who |-> m, row |-> [role |-> role, active |-> on], saw |-> member[m],
           limit |-> plan[sub.plan].seats, works |-> IsOperational, seated |-> FALSE]]

\* The start of user_create, user_edit and create_wms_user.
Open(c) ==
    /\ request[c] = Absent
    /\ \E kind \in {"create", "edit", "wms"} :
          /\ Allowed(TRUE, {IF kind = "wms" THEN "wms" ELSE "pos_core"})
          /\ \E m \in Members, role \in Roles, on \in BOOLEAN : Opened(c, kind, m, role, on)
    /\ UNCHANGED <<member, business, unseen>>

\* For an edit this is reactivating.
TakesSeat(r) ==
    /\ r.row.active
    /\ r.kind = "edit" => ~ r.saw.active /\ r.saw.role # OwnerRole

\* limit_state and check_limit, with what the request read of the plan.
HasRoom(r) == r.works /\ (r.limit = 0 \/ Cardinality(ActiveMembers) < r.limit)

LockNothing == TRUE
LockBusiness == business = Nothing

\* _lock_and_check_user_seat
TakeSeat(c) ==
    /\ request[c] # Absent /\ TakesSeat(request[c]) /\ ~ request[c].seated
    /\ LockBusiness
    /\ IF HasRoom(request[c])
       THEN business' = c /\ request' = [request EXCEPT ![c].seated = TRUE]
       ELSE request' = [request EXCEPT ![c] = Absent] /\ UNCHANGED business
    /\ UNCHANGED <<member, unseen>>

\* The row that the request leaves: an email that exists by now is refused, and
\* the row of the owner keeps role and activity.
Saved(r) ==
    IF r.kind # "edit" THEN IF member[r.who] = Absent THEN r.row ELSE member[r.who]
    ELSE IF member[r.who].role = OwnerRole THEN member[r.who] ELSE r.row

Finish(c) ==
    /\ request[c] # Absent
    /\ TakesSeat(request[c]) => request[c].seated
    /\ LET r == request[c]
           again == ~ IsActive(member[r.who]) /\ IsActive(Saved(r)) /\ ~ TakesSeat(r)
       IN  /\ member' = [member EXCEPT ![r.who] = Saved(r)]
           /\ unseen' = (IF again THEN unseen \cup {r.who} ELSE unseen)
                        \ {m \in Members : ~ IsActive(member'[m])}
    /\ request' = [request EXCEPT ![c] = Absent]
    /\ business' = IF business = c THEN Nothing ELSE business

\* What the platform does to the same business: plan_form locks nothing.
ChangeRights ==
    \/ SavePlan
    \/ business = Nothing /\ (ChangePlan \/ Suspend \/ Activate)

MembersNext ==
    \/ \E c \in Clerks :
          (Open(c) \/ TakeSeat(c) \/ Finish(c)) /\ UNCHANGED subscriptionVars
    \/ ChangeRights /\ UNCHANGED memberVars

-----------------------------------------------------------------------------

\* A member becomes active only in a seat that the plan of its request had left,
\* whoever is created, reactivated or brought in by WMS at the same time, unless
\* the request had read that the member is active (user_edit decides on the seat
\* before it locks anything); and the owner never loses role and activity.
SeatsAreBought == [][
    /\ member'[Owner] = member[Owner]
    /\ \A m \in Members : IsActive(member'[m]) /\ ~ IsActive(member[m]) =>
          \E c \in Clerks :
             /\ request[c] # Absent /\ request[c].who = m
             /\ \/ IsActive(request[c].saw)
                \/ request[c].works
                   /\ (request[c].limit = 0
                       \/ Cardinality({x \in Members : IsActive(member'[x])} \ unseen')
                             <= request[c].limit)
   ]_<<memberVars, subscriptionVars>>
=============================================================================
