------------------------------- MODULE Catalog -------------------------------
(***************************************************************************)
(* Products and variants of one business and their opening stock in one    *)
(* warehouse (apps/catalog/services.py, views.py, forms.py), while stock   *)
(* moves (record_movement of apps/inventory/services.py).                  *)
(*                                                                         *)
(* A request looks without a lock (its form, or the row of a file), then   *)
(* locks the product and decides, and at last inserts: between deciding    *)
(* and inserting another request may take the same code.  SKU and barcode  *)
(* are one code, category and brand are the same for all products, an      *)
(* imported file has one row, and archiving, prices and access are left    *)
(* out.                                                                    *)
(***************************************************************************)
EXTENDS Naturals, FiniteSets

CONSTANTS
    Products, Variants,     \* identities of rows
    Names, Shades,          \* names of products and of variants
    Editors,                \* requests at work
    MaxCode,                \* a bound on codes; 0 is the empty one
    MaxStock,               \* a bound on the stock of a place
    Limit,                  \* the products the plan allows
    NoRow

VARIABLES
    product, variant,
    stock,                  \* StockLevel of products and variants, or NoRow
    moved,                  \* products with movements or documents
    job,
    locked                  \* per product: the request that holds its row

catalogVars == <<product, variant, stock, moved, job, locked>>

Kinds == {"standard", "variant", "service"}
Codes == 0..MaxCode
\* The unit, and for meters whether the product follows the workflow of Meter
\* products: those in "retail" are older than that workflow.
Units == {"piece", "meter", "retail"}
Product == [name : Names, sku : Codes, kind : Kinds, unit : Units]
Variant == [of : Products, shade : Shades, sku : Codes]

Rows == {p \in Products : product[p] # NoRow}
VariantRows == {v \in Variants : variant[v] # NoRow}
VariantsOf(p) == {v \in VariantRows : variant[v].of = p}
CodesExcept(p) == {product[o].sku : o \in Rows \ {p}} \ {0}
VariantCodes == {variant[v].sku : v \in VariantRows} \ {0}
Vacant(p) == Codes \ (CodesExcept(p) \cup VariantCodes)

IsStocked(row) == row.kind \in {"standard", "variant"}
IsMeter(row) == row.unit # "piece"
IsMeterTailoring(row) == row.unit = "meter"
OnHand(x) == IF stock[x] = NoRow THEN 0 ELSE stock[x]

\* An empty place is nothing that can be in it.
ASSUME CatalogConstants ==
    /\ MaxCode \in Nat /\ Products \cap Variants = {}
    /\ NoRow \notin Products /\ NoRow \notin Variants /\ NoRow \notin Shades
    /\ NoRow \notin Editors /\ NoRow \notin Nat /\ NoRow \notin Units
    /\ NoRow \notin Product /\ NoRow \notin Variant

-----------------------------------------------------------------------------

HasHistory(p) ==
    p \in moved \/ OnHand(p) # 0 \/ \E v \in VariantsOf(p) : OnHand(v) # 0

\* validate_meter_product_shape
ShapeAllowed(p, from, to) ==
    IsMeter(from) \/ IsMeter(to) =>
        /\ \/ from.kind = to.kind /\ from.unit = to.unit
           \/ ~ HasHistory(p) /\ VariantsOf(p) = {}
        /\ IsMeterTailoring(to) =>
               IF to.kind = "variant" THEN OnHand(p) = 0 ELSE VariantsOf(p) = {}

\* ProductForm.clean: meters bring the workflow, except for an older product.
IsClean(form, from) ==
    form.unit = "retail" <=> IsMeter(form) /\ from # NoRow /\ from.unit = "retail"

FormAccepts(p, form, shade, qty) ==
    /\ IsClean(form, IF p = NoRow THEN NoRow ELSE product[p])
    /\ IsMeterTailoring(form) => form.kind # "service" /\ (shade = NoRow => qty = 0)
    /\ qty > 0 => IsStocked(form)
    /\ form.sku # 0 => form.sku \notin VariantCodes
    /\ p # NoRow => /\ form.sku \notin CodesExcept(p)
                     /\ ShapeAllowed(p, product[p], form)

\* generate_sku, after the product p of the same request has taken code.
NextOfProducts(p, code) ==
    LET used == CodesExcept(p) \cup {0, code}
    IN  1 + CHOOSE n \in used : \A m \in used : m <= n
NextCode(p, code) ==
    LET used == CodesExcept(p) \cup VariantCodes \cup {0, code}
    IN  1 + CHOOSE n \in used : \A m \in used : m <= n

-----------------------------------------------------------------------------
(* A request starts with what it looked at: the product p that it found or *)
(* NoRow for a new one, the unit that it had (old), the row it wants      *)
(* (form), the variant it wants (shade, or NoRow, with the code vsku) and *)
(* the opening stock.  vacant: codes that were free while it was at work.  *)

Start(e, op, p, form, shade, vsku, qty) ==
    /\ job[e] = NoRow
    /\ job' = [job EXCEPT ![e] =
          [op |-> op, p |-> p, form |-> form, old |-> IF p = NoRow THEN NoRow ELSE product[p].unit,
           shade |-> shade, vsku |-> vsku, v |-> NoRow, qty |-> qty, decided |-> FALSE,
           vacant |-> Vacant(p)]]
    /\ UNCHANGED <<product, variant, stock, moved, locked>>

VariantCodesFor(shade) == IF shade = NoRow THEN {0} ELSE Codes

\* product_form: the form of a new product, or of an existing one.
OpenForm(e) ==
    \E p \in Rows \cup {NoRow}, form \in Product, shade \in Shades \cup {NoRow}, qty \in {0, 1} :
        /\ shade # NoRow => form.kind = "variant"
        /\ FormAccepts(p, form, shade, qty)
        /\ \E vsku \in VariantCodesFor(shade) : Start(e, "form", p, form, shade, vsku, qty)

\* variant_form for a new variant.
OpenVariantForm(e) ==
    \E p \in Rows, shade \in Shades, vsku \in Vacant(NoRow) :
        Start(e, "variant", p, product[p], shade, vsku, 0)

\* The products that a row of a file means.
Coded(row) == {p \in Rows : row.sku # 0 /\ product[p].sku = row.sku}
Alike(row) == {p \in Rows : product[p].name = row.name /\ IsMeter(product[p]) <=> IsMeter(row)}
Meant(row, asVariant, bySku) ==
    IF (asVariant /\ Coded(row) # {}) \/ (~ asVariant /\ bySku) THEN Coded(row) ELSE Alike(row)

Agrees(p, row) ==
    /\ product[p].name = row.name /\ product[p].kind = row.kind
    /\ row.sku # 0 => product[p].sku = row.sku

RoomInPlan == Cardinality(Rows) < Limit

\* import_products up to the savepoint of the row.
ReadRow(e) ==
    \E row \in Product, bySku \in BOOLEAN, shade \in Shades \cup {NoRow}, qty \in {0, 1} :
    LET found == Meant(row, shade # NoRow, bySku)
    IN  /\ row.unit # "retail"
        /\ shade # NoRow => row.kind = "variant"
        /\ qty > 0 => IsStocked(row)
        /\ Cardinality(found) <= 1
        /\ \A p \in found :
              /\ Agrees(p, row)
              /\ IF shade = NoRow THEN row.kind = "standard" /\ stock[p] = NoRow
                                   ELSE IsMeter(product[p]) <=> IsMeter(row)
        /\ found = {} =>
              /\ RoomInPlan
              /\ IsMeter(row) => IsStocked(row) /\ (shade = NoRow => qty = 0)
        /\ \E p \in IF found = {} THEN {NoRow} ELSE found, vsku \in VariantCodesFor(shade) :
              Start(e, "import", p, row, shade, vsku, qty)

-----------------------------------------------------------------------------
(* Then it locks the product and decides; what it will insert is reserved. *)

Unlocked(e) == [p \in Products |-> IF locked[p] = e THEN NoRow ELSE locked[p]]

\* A refusal, or the loss of the worker.
GiveUp(e) ==
    /\ job[e] # NoRow
    /\ job' = [job EXCEPT ![e] = NoRow]
    /\ locked' = Unlocked(e)
    /\ UNCHANGED <<product, variant, stock, moved>>

\* find_reusable_product: nothing, a product, or a refusal.
Reusable(form) ==
    LET found == IF Coded(form) # {} THEN Coded(form) ELSE Alike(form)
    IN  IF \/ form.sku \in VariantCodes
           \/ ~ Coded(form) \subseteq Alike(form)
           \/ Cardinality(found) > 1
           \/ \E p \in found : product[p].kind # form.kind
                               \/ (form.sku # 0 /\ product[p].sku # form.sku)
        THEN {NoRow} ELSE found

\* find_reusable_variant for product p, which has taken code.
ReusableVariant(p, code, shade, vsku) ==
    LET coded == {v \in VariantRows : vsku # 0 /\ variant[v].sku = vsku}
        alike == {v \in VariantsOf(p) : variant[v].shade = shade}
        found == IF coded # {} THEN coded ELSE alike
    IN  IF \/ vsku # 0 /\ vsku \in CodesExcept(p) \cup {code}
           \/ ~ coded \subseteq alike
           \/ Cardinality(found) > 1
           \/ \E v \in found : vsku # 0 /\ variant[v].sku # vsku
        THEN {NoRow} ELSE found

\* Keys are not used again while a request remembers them.
FreshProducts == {p \in Products :
    /\ product[p] = NoRow /\ locked[p] = NoRow
    /\ \A o \in Editors : job[o] # NoRow => job[o].p # p}
FreshVariants(e) == {v \in Variants :
    variant[v] = NoRow /\ \A o \in Editors \ {e} : job[o] # NoRow => job[o].v # v}
NewProduct == CHOOSE p \in FreshProducts : TRUE
NewVariant(e) == CHOOSE v \in FreshVariants(e) : TRUE

\* The request goes on to insert row as product p and the variant that it
\* wants, unless that is refused; generates: it makes up a missing code.
Decide(e, p, row, generates) ==
    LET j == job[e]
        vs == IF j.shade = NoRow \/ j.op = "variant" THEN {}
              ELSE ReusableVariant(p, row.sku, j.shade, j.vsku)
        v == IF j.shade = NoRow THEN NoRow
             ELSE IF vs = {} THEN NewVariant(e) ELSE CHOOSE x \in vs : TRUE
        vsku == IF vs # {} THEN variant[v].sku
                ELSE IF generates /\ j.vsku = 0 THEN NextCode(p, row.sku) ELSE j.vsku
    IN  IF NoRow \in vs THEN GiveUp(e)
        ELSE /\ vsku <= MaxCode /\ row.sku <= MaxCode
             /\ job' = [job EXCEPT ![e] =
                   [j EXCEPT !.p = p, !.form = row, !.v = v,
                             !.vsku = IF v = NoRow THEN 0 ELSE vsku,
                             !.decided = TRUE, !.vacant = @ \cup Vacant(p)]]
             /\ locked' = [locked EXCEPT ![p] = e]
             /\ UNCHANGED <<product, variant, stock, moved>>

Looked(e, op) == job[e] # NoRow /\ job[e].op = op /\ ~ job[e].decided

WithCode(p, form, auto) ==
    IF auto /\ form.sku = 0 THEN [form EXCEPT !.sku = NextCode(p, 0)] ELSE form

\* The shape is checked again under the lock.
StillAllowed(p, form) == product[p] # NoRow /\ ShapeAllowed(p, product[p], form)

\* product_form for an existing product, and for a new one.
DecideEdit(e) ==
    /\ Looked(e, "form") /\ job[e].p # NoRow /\ FreshVariants(e) # {}
    /\ LET p == job[e].p
       IN  /\ locked[p] = NoRow
           /\ IF StillAllowed(p, job[e].form)
              THEN \E auto \in BOOLEAN : Decide(e, p, WithCode(p, job[e].form, auto), TRUE)
              ELSE GiveUp(e)

DecideNew(e) ==
    /\ Looked(e, "form") /\ job[e].p = NoRow /\ FreshProducts # {} /\ FreshVariants(e) # {}
    /\ LET form == job[e].form
           found == Reusable(form)
       IN  IF NoRow \in found \/ (found = {} /\ ~ RoomInPlan)
           THEN GiveUp(e)
           ELSE IF found = {}
           THEN \E auto \in BOOLEAN :
                   Decide(e, NewProduct, WithCode(NewProduct, form, auto), TRUE)
           ELSE \E p \in found : locked[p] = NoRow /\ Decide(e, p, product[p], TRUE)

DecideVariant(e) ==
    /\ Looked(e, "variant") /\ FreshVariants(e) # {}
    /\ LET p == job[e].p
           to == [product[p] EXCEPT !.kind = "variant"]
       IN  /\ locked[p] = NoRow
           /\ IF product[p] # NoRow /\ ShapeAllowed(p, product[p], to)
              THEN Decide(e, p, to, FALSE) ELSE GiveUp(e)

\* The savepoint of a row: a parent has to be in the unit that was read before.
DecideRow(e) ==
    /\ Looked(e, "import") /\ job[e].p # NoRow /\ FreshVariants(e) # {}
    /\ LET j == job[e]
           parent == [product[j.p] EXCEPT !.kind = "variant"]
       IN  /\ locked[j.p] = NoRow
           /\ IF product[j.p] = NoRow THEN GiveUp(e)
              ELSE IF j.shade = NoRow THEN Decide(e, j.p, product[j.p], TRUE)
              ELSE IF product[j.p].unit = j.old /\ ShapeAllowed(j.p, product[j.p], parent)
              THEN Decide(e, j.p, parent, TRUE) ELSE GiveUp(e)

DecideNewRow(e) ==
    /\ Looked(e, "import") /\ job[e].p = NoRow /\ FreshVariants(e) # {}
    /\ IF job[e].form.sku \in CodesExcept(NoRow) \cup VariantCodes THEN GiveUp(e)
       ELSE FreshProducts # {} /\ Decide(e, NewProduct, job[e].form, TRUE)

-----------------------------------------------------------------------------

\* The unique constraints of the two tables.
Unique(j) ==
    /\ j.form.sku \notin CodesExcept(j.p)
    /\ j.v # NoRow /\ j.vsku # 0 =>
          \A v \in VariantRows \ {j.v} : variant[v].sku # j.vsku

\* ensure_branch_opening_stock is asked for one place at most.
Place(j) == IF j.shade = NoRow THEN j.p ELSE j.v
Opening(j) ==
    /\ j.op # "variant" /\ IsStocked(j.form)
    /\ j.op = "form" /\ j.shade = NoRow =>
          j.old = NoRow /\ j.form.kind # "variant" /\ ~ IsMeter(j.form)

\* An import of an existing product looked before it had the lock.
OnOldLook(j) == j.op = "import" /\ j.old # NoRow /\ j.shade = NoRow
Adds(j) == Opening(j) /\ (OnOldLook(j) \/ stock[Place(j)] = NoRow)

\* record_movement takes no new stock of a Meter product without its variant.
Takes(p, row, x) == ~ (IsMeterTailoring(row) /\ row.kind = "variant" /\ x = p)

SavedVariants(j) ==
    IF j.v = NoRow THEN variant
    ELSE [variant EXCEPT ![j.v] = [of |-> j.p, shade |-> j.shade, sku |-> j.vsku]]

\* Everything is inserted and committed.
Commit(e) ==
    /\ job[e] # NoRow /\ job[e].decided
    /\ LET j == job[e]
           x == Place(j)
       IN  IF \/ ~ Unique(j)
              \/ (Adds(j) /\ IF j.qty > 0 THEN ~ Takes(j.p, j.form, x) ELSE stock[x] # NoRow)
           THEN GiveUp(e)
           ELSE /\ product' = [product EXCEPT ![j.p] = j.form]
                /\ variant' = SavedVariants(j)
                /\ stock' = IF Adds(j) THEN [stock EXCEPT ![x] = OnHand(x) + j.qty] ELSE stock
                /\ moved' = IF Adds(j) /\ j.qty > 0 THEN moved \cup {j.p} ELSE moved
                /\ stock'[x] # NoRow => stock'[x] <= MaxStock
                /\ job' = [job EXCEPT ![e] = NoRow]
                /\ locked' = Unlocked(e)

\* delete_product_if_safe, with what goes by cascade.
Unused(p) == p \notin moved
Delete(p) ==
    /\ p \in Rows /\ locked[p] = NoRow /\ Unused(p)
    /\ product' = [product EXCEPT ![p] = NoRow]
    /\ variant' = [v \in Variants |-> IF v \in VariantsOf(p) THEN NoRow ELSE variant[v]]
    /\ stock' = [x \in Products \cup Variants |->
                    IF x = p \/ x \in VariantsOf(p) THEN NoRow ELSE stock[x]]
    /\ UNCHANGED <<moved, job, locked>>

\* Another request moves stock, or writes a document that refers to p.
Move(p) ==
    /\ p \in Rows /\ locked[p] = NoRow
    /\ moved' = moved \cup {p}
    /\ \/ \E x \in {p} \cup VariantsOf(p), q \in 0..MaxStock :
             /\ IsStocked(product[p]) /\ Takes(p, product[p], x)
             /\ q \in {OnHand(x) - 1, OnHand(x) + 1}
             /\ stock' = [stock EXCEPT ![x] = q]
       \/ UNCHANGED stock
    /\ UNCHANGED <<product, variant, job, locked>>

\* A catalogue with at most one product, which may be in meters from before
\* there was a workflow for them and have stock.
CatalogInit ==
    /\ \E p \in Products, row \in Product \cup {NoRow} :
          /\ row # NoRow => row.kind = "standard" /\ row.sku < 2 /\ row.unit # "meter"
          /\ product = [o \in Products |-> IF o = p THEN row ELSE NoRow]
          /\ moved \in SUBSET IF row = NoRow THEN {} ELSE {p}
          /\ stock = [x \in Products \cup Variants |-> IF x \in moved THEN 1 ELSE NoRow]
    /\ variant = [v \in Variants |-> NoRow]
    /\ job = [e \in Editors |-> NoRow]
    /\ locked = [p \in Products |-> NoRow]

CatalogNext ==
    \/ \E e \in Editors :
          \/ OpenForm(e) \/ OpenVariantForm(e) \/ ReadRow(e)
          \/ DecideEdit(e) \/ DecideNew(e) \/ DecideVariant(e) \/ DecideRow(e) \/ DecideNewRow(e)
          \/ Commit(e) \/ GiveUp(e)
    \/ \E p \in Products : Delete(p) \/ Move(p)

-----------------------------------------------------------------------------

MeterStockHasItsVariant == \A p \in Rows :
    IsMeterTailoring(product[p]) =>
        IF product[p].kind = "variant" THEN OnHand(p) = 0 ELSE VariantsOf(p) = {}

ShapesStay == \A p \in Rows :
    /\ HasHistory(p) \/ VariantsOf(p) # {}
    /\ product'[p] # NoRow
    /\ IsMeter(product[p]) \/ IsMeter(product'[p])
    => product'[p].kind = product[p].kind /\ product'[p].unit = product[p].unit

NewCode(now, before) == now # NoRow /\ now.sku # 0 /\ (before = NoRow \/ before.sku # now.sku)

CodesWereVacant == \A e \in Editors : job[e] # NoRow /\ job'[e] = NoRow =>
    /\ \A p \in Products : NewCode(product'[p], product[p]) => product'[p].sku \in job[e].vacant
    /\ \A v \in Variants : NewCode(variant'[v], variant[v]) => variant'[v].sku \in job[e].vacant

OpeningsAreFirst == \A e \in Editors : job[e] # NoRow /\ job'[e] = NoRow =>
    \A x \in Products \cup Variants :
        stock[x] # NoRow /\ stock'[x] # stock[x] => OnOldLook(job[e])

\* A product in meters keeps its unit, workflow and type from its first
\* movement, document or variant on, and its stock lies with its variants, whoever
\* moves stock between the form and its lock; what has history is not deleted; a
\* code that a request types or makes up was free, among products and among
\* variants, while the request was at work; and an opening is added to existing
\* stock by no one but an import that looked before it locked.
CatalogHoldsTogether ==
    /\ []MeterStockHasItsVariant
    /\ [][/\ ShapesStay /\ CodesWereVacant /\ OpeningsAreFirst
          /\ moved \subseteq {p \in Products : product'[p] # NoRow}]_catalogVars
=============================================================================
