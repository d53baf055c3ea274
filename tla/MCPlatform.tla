------------------------------ MODULE MCPlatform ------------------------------
(***************************************************************************)
(* The instance of Members and Catalog for TLC.  A behaviour plays in one  *)
(* part of the platform, which the initial state picks: renewals and their *)
(* reversals, a profile form that outlives a suspension, the plans and     *)
(* modules that decide on access, the seats, and two requests of the       *)
(* catalogue that meet over codes or over the shape of a product.          *)
(***************************************************************************)
EXTENDS Members, Catalog, TLC

CONSTANTS basic, shop, r1, r2, ann, bob, eve, chief, cashier, staff, tailor,
          p1, p2, v1, v2, shirt, red

VARIABLES
    part,
    opened          \* requests of the catalogue so far

MCModules == {"pos_core", "users_staff", "custom_roles", "wms", "api_access"}
MCNeeds == "pos_core" :> {} @@ "users_staff" :> {"pos_core"}
           @@ "custom_roles" :> {"users_staff"} @@ "wms" :> {} @@ "api_access" :> {}
MCDerivedFrom == [m \in MCModules |-> IF m = "users_staff" THEN "pos_core" ELSE Nothing]
MCPlanRows ==
    {[on |-> TRUE, allowsTrial |-> TRUE, seats |-> 2, features |-> {"pos_core", "custom_roles"}],
     [on |-> TRUE, allowsTrial |-> FALSE, seats |-> 0, features |-> {"custom_roles", "wms", "api_access"}],
     [on |-> FALSE, allowsTrial |-> TRUE, seats |-> 1, features |-> {"pos_core", "wms"}]}

Symmetric == Permutations(Clerks) \cup Permutations({bob, eve})
             \cup Permutations(Products) \cup Permutations(Variants)

Parts == {"paid", "stale", "rights", "members", "codes", "shapes"}
OfCatalog == part \in {"codes", "shapes"}

MCInit ==
    /\ part \in Parts /\ opened = 0
    /\ SubscriptionsInit /\ MembersInit /\ CatalogInit
    /\ part \in {"paid", "stale"} =>
          \A p \in Plans : plan[p].on /\ (plan[p].allowsTrial <=> p = basic)
    /\ part # "paid" => receipt = <<>>
    /\ part \in {"members", "codes", "shapes"} =>
          /\ plan[basic].on /\ plan[basic].seats = 2 /\ plan[shop].seats = 0 /\ sub.plan = basic
          /\ \A m \in Members : member[m] # Absent => member[m].role # tailor
    /\ part # "members" => \A m \in Members \ {Owner} : member[m] = Absent
    /\ part = "codes" => moved = {} /\ \A p \in Rows : product[p].unit = "piece"
    /\ part = "shapes" => \A p \in Rows : product[p].sku = 0
    /\ ~ OfCatalog => Rows = {}

\* Two requests for codes that come without stock, or for shapes without codes.
OneConcern(j) ==
    IF part = "codes" THEN j.form.unit = "piece" /\ j.form.kind # "service" /\ j.qty = 0
    ELSE j.form.sku = 0 /\ j.vsku = 0

TwoRequests ==
    /\ \A e \in Editors : job'[e] # NoRow => OneConcern(job'[e])
    /\ opened' = IF \E e \in Editors : job[e] = NoRow /\ job'[e] # NoRow THEN opened + 1 ELSE opened
    /\ opened' <= 2

AtWork == {c \in Clerks : request[c] # Absent}

MCNext ==
    /\ UNCHANGED part
    /\ \/ /\ part = "members" /\ MembersNext
          /\ (plan' # plan \/ sub' # sub) => AtWork # {}
       \/ ~ OfCatalog /\ part # "members" /\ SubscriptionsNext /\ UNCHANGED memberVars
       \/ OfCatalog /\ CatalogNext /\ TwoRequests /\ UNCHANGED <<memberVars, subscriptionVars>>
    /\ ~ OfCatalog => UNCHANGED <<catalogVars, opened>>
    /\ CASE part = "paid" -> UNCHANGED <<today, plan, expiryMode, copy>>
         [] part = "stale" -> UNCHANGED <<plan, expiryMode>>
         [] OTHER -> UNCHANGED <<receipt, copy>>

MCSpec == MCInit /\ [][MCNext]_<<part, opened, memberVars, subscriptionVars, catalogVars>>

\* Trials are extended in the part of the rights alone.
FewPeriods ==
    /\ part # "rights" => sub.trialEnds \in {Nothing, TrialDays}
    /\ Len(receipt) = 2 => sub.status # "suspended"
    /\ part = "paid" => Len(receipt) + Cardinality(free) <= 3
    /\ part = "stale" => Len(receipt) + Cardinality(free) <= 2
    /\ part = "members" => plan[shop].seats = 0 /\ sub.status # "suspended"
=============================================================================
