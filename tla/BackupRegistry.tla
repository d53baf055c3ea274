---------------------------- MODULE BackupRegistry ----------------------------
(***************************************************************************)
(* What a backup of a tenant is made of: the components of                 *)
(* apps/backups/registry.py with their models, and the references between  *)
(* models that the exporter declares in logical_export_specs_*.py.  Labels *)
(* stand without their app.  References to accounts.User, which is global, *)
(* and to the tenant itself are left out.                                  *)
(***************************************************************************)
EXTENDS Naturals, FiniteSets, Sequences, SequencesExt, TLC

Shared ==
    [tenant_identity |-> [order |-> 10, restore |-> "reference", requires |-> {},
                          models |-> <<"Business">>],
     locations |-> [order |-> 20, restore |-> "dependency", requires |-> {"tenant_identity"},
                    models |-> <<"Branch", "Warehouse">>],
     tenant_settings |-> [order |-> 30, restore |-> "dependency",
                          requires |-> {"tenant_identity", "locations"},
                          models |-> <<"BusinessSettings">>],
     access_control |-> [order |-> 40, restore |-> "reference",
                         requires |-> {"tenant_identity", "locations"},
                         models |-> <<"Role", "Membership">>]]

Replaced(order, requires, models) ==
    [order |-> order, restore |-> "replace", requires |-> requires, models |-> models]

PosMasters ==
    [catalog |-> Replaced(100, {"tenant_identity"},
        <<"Category", "Brand", "Unit", "TaxRate", "Product", "ProductVariant">>),
     customers |-> Replaced(110, {"tenant_identity", "locations"},
        <<"CustomerGroup", "Customer", "CustomerFamilyMember", "CustomerPayment">>),
     suppliers |-> Replaced(120, {"tenant_identity"}, <<"Supplier", "SupplierPayment">>),
     inventory |-> Replaced(130, {"locations", "catalog"},
        <<"StockLevel", "StockMovement", "StockTransfer", "StockTransferItem",
          "StockAdjustment", "StockAdjustmentItem", "StockCount", "StockCountItem">>)]

PosDocuments ==
    [purchases |-> Replaced(140, {"catalog", "inventory", "suppliers"},
        <<"Purchase", "PurchaseItem", "PurchaseReturn", "PurchaseReturnItem">>),
     registers |-> Replaced(150, {"locations"}, <<"CashRegister", "Shift">>),
     sales |-> Replaced(160, {"locations", "catalog", "customers", "inventory", "registers"},
        <<"PaymentMethod", "InvoiceSequence", "Sale", "SaleItem", "SalePayment",
          "SaleReturn", "SaleReturnItem">>),
     expenses |-> Replaced(170, {"locations"},
        <<"ExpenseCategory", "RecurringExpenseTemplate", "Expense">>)]

Wms ==
    [core |-> Replaced(200, {"access_control", "locations"},
        <<"WmsLocation", "WmsSettings", "WmsRole", "WmsUserAccess">>),
     workforce |-> Replaced(210, {"core"},
        <<"WmsEmployee", "WmsProductionCategory", "WmsEmployeeCategoryAssignment">>),
     attendance |-> Replaced(220, {"workforce"}, <<"WmsAttendance">>),
     production |-> Replaced(240, {"workforce", "orders"},
        <<"WmsProductionEntry", "WmsProductionEntryLine">>),
     orders |-> Replaced(230, {"core", "workforce"},
        <<"WmsWorkshopOrder", "WmsWorkshopOrderStatusHistory">>),
     alterations |-> Replaced(250, {"orders"}, <<"WmsAlteration">>),
     salary |-> Replaced(260, {"workforce", "attendance", "production"},
        <<"WmsSalary", "WmsSalaryLocationSnapshot", "WmsSalaryDay", "WmsSalaryPieceLine">>)]

Pos == PosMasters @@ PosDocuments
Component == Shared @@ Pos @@ Wms

Scopes == {"POS", "WMS", "ALL"}

\* ComponentRegistry.resolve: the shared components and those of the products
\* in the scope.
InScope(scope) ==
    DOMAIN Shared \cup (IF scope # "WMS" THEN DOMAIN Pos ELSE {})
                  \cup (IF scope # "POS" THEN DOMAIN Wms ELSE {})

\* Export and import orders are the same numbers.  A component comes after what
\* it requires, and the numbers already say so: the topological order with the
\* number as tie break is the order of the numbers.
Earlier(scope, c) == {d \in InScope(scope) : Component[d].order < Component[c].order}
Plan(scope) ==
    [i \in 1 .. Cardinality(InScope(scope)) |->
        CHOOSE c \in InScope(scope) : Cardinality(Earlier(scope, c)) = i - 1]

RequiredFirst ==
    \A c \in DOMAIN Component : \A d \in Component[c].requires :
        Component[d].order < Component[c].order
ScopesAreClosed ==
    \A s \in Scopes : \A c \in InScope(s) : Component[c].requires \subseteq InScope(s)

ASSUME RegistryIsOrdered == RequiredFirst /\ ScopesAreClosed

\* A plan as the sequence of its models.
ModelsOf(scope) == LET plan == Plan(scope)
                   IN  FoldLeft(LAMBDA models, c : models \o Component[c].models, <<>>, plan)

ComponentOf(m) == CHOOSE c \in DOMAIN Component : \E i \in DOMAIN Component[c].models :
                      Component[c].models[i] = m
Replaceable(m) == Component[ComponentOf(m)].restore = "replace"

-----------------------------------------------------------------------------
(* References between models: those a row must have, those it may have.    *)

Ref(must, may) == [must |-> must, may |-> may]
ItemsOf(document) == Ref({document, "Product"}, {"ProductVariant"})

SharedRefs ==
    [BusinessSettings |-> Ref({}, {"Warehouse"}), Membership |-> Ref({"Role"}, {"Branch"}),
     Warehouse |-> Ref({}, {"Branch"})]

CatalogRefs ==
    [Category |-> Ref({}, {"Category"}),
     Product |-> Ref({}, {"Category", "Brand", "Unit", "TaxRate", "Supplier"}),
     ProductVariant |-> Ref({"Product"}, {})]

PartnerRefs ==
    [Customer |-> Ref({}, {"Branch", "CustomerGroup"}),
     CustomerFamilyMember |-> Ref({"Customer"}, {}),
     CustomerPayment |-> Ref({"Customer"}, {"Branch", "PaymentMethod", "Shift"}),
     SupplierPayment |-> Ref({"Supplier"}, {"Purchase", "PaymentMethod"})]

InventoryRefs ==
    [StockLevel |-> Ref({"Warehouse", "Product"}, {"ProductVariant"}),
     StockMovement |-> Ref({"Warehouse", "Product"}, {"ProductVariant"}),
     StockTransfer |-> Ref({"Warehouse"}, {}), StockTransferItem |-> ItemsOf("StockTransfer"),
     StockAdjustment |-> Ref({"Warehouse"}, {}),
     StockAdjustmentItem |-> ItemsOf("StockAdjustment"),
     StockCount |-> Ref({"Warehouse"}, {}), StockCountItem |-> ItemsOf("StockCount")]

PurchaseRefs ==
    [Purchase |-> Ref({"Supplier", "Branch", "Warehouse"}, {}),
     PurchaseItem |-> ItemsOf("Purchase"),
     PurchaseReturn |-> Ref({"Purchase", "Supplier", "Warehouse"}, {}),
     PurchaseReturnItem |-> Ref({"PurchaseReturn", "PurchaseItem"}, {}),
     CashRegister |-> Ref({"Branch"}, {}), Shift |-> Ref({"CashRegister", "Branch"}, {})]

SaleRefs ==
    [InvoiceSequence |-> Ref({}, {"Branch"}),
     Sale |-> Ref({"Branch", "Warehouse", "Customer"}, {"CashRegister", "Shift"}),
     SaleItem |-> Ref({"Sale", "Product"},
                      {"ProductVariant", "Warehouse", "CustomerFamilyMember"}),
     SalePayment |-> Ref({"Sale", "PaymentMethod"}, {"Shift"}),
     SaleReturn |-> Ref({"Sale", "Customer", "Branch", "Warehouse"}, {"Shift"}),
     SaleReturnItem |-> Ref({"SaleReturn", "SaleItem"}, {})]

ExpenseRefs ==
    [ExpenseCategory |-> Ref({}, {"ExpenseCategory"}),
     RecurringExpenseTemplate |-> Ref({"ExpenseCategory"}, {"Branch"}),
     Expense |-> Ref({"Branch", "ExpenseCategory"},
                     {"Supplier", "PaymentMethod", "Shift", "RecurringExpenseTemplate"})]

WmsCoreRefs ==
    [WmsLocation |-> Ref({"Branch"}, {}), WmsSettings |-> Ref({}, {"WmsLocation"}),
     WmsUserAccess |-> Ref({"Membership", "WmsRole"}, {"WmsLocation"})]

WmsStaffRefs ==
    [WmsEmployee |-> Ref({"WmsLocation"}, {}),
     WmsEmployeeCategoryAssignment |-> Ref({"WmsEmployee", "WmsProductionCategory"}, {})]

WmsWorkRefs ==
    [WmsAttendance |-> Ref({"WmsLocation", "WmsEmployee"}, {}),
     WmsProductionEntry |-> Ref({"WmsLocation", "WmsEmployee"}, {}),
     WmsProductionEntryLine |-> Ref({"WmsProductionEntry", "WmsEmployeeCategoryAssignment",
                                     "WmsProductionCategory"}, {"WmsWorkshopOrder"})]

WmsOrderRefs ==
    [WmsWorkshopOrder |-> Ref({"WmsLocation"}, {}),
     WmsWorkshopOrderStatusHistory |-> Ref({"WmsWorkshopOrder"}, {}),
     WmsAlteration |-> Ref({"WmsLocation", "WmsEmployee"}, {})]

WmsSalaryRefs ==
    [WmsSalary |-> Ref({"WmsEmployee"}, {}),
     WmsSalaryLocationSnapshot |-> Ref({"WmsSalary", "WmsLocation"}, {}),
     WmsSalaryDay |-> Ref({"WmsSalary", "WmsLocation"}, {"WmsAttendance", "WmsProductionEntry"}),
     WmsSalaryPieceLine |-> Ref({"WmsSalaryDay", "WmsProductionEntryLine"}, {})]

Refs == SharedRefs @@ CatalogRefs @@ PartnerRefs @@ InventoryRefs @@ PurchaseRefs @@ SaleRefs
        @@ ExpenseRefs @@ WmsCoreRefs @@ WmsStaffRefs @@ WmsWorkRefs @@ WmsOrderRefs @@ WmsSalaryRefs

MustRefer(m) == IF m \in DOMAIN Refs THEN Refs[m].must ELSE {}
MayRefer(m) == IF m \in DOMAIN Refs THEN Refs[m].may ELSE {}
Refers(m) == MustRefer(m) \cup MayRefer(m)

\* A model only refers to models that are in every plan it is in itself.
ASSUME PlansAreClosed ==
    \A s \in Scopes : LET inPlan == ToSet(ModelsOf(s))
                      IN  \A m \in inPlan : Refers(m) \subseteq inPlan

\* Models with a media file.
MediaModels == {"Business", "Product", "ProductVariant", "Purchase", "Expense"}

\* References to a later model that keep the row they lead to from being deleted
\* (on_delete of the model field).
Protects == {<<"CustomerPayment", "PaymentMethod">>, <<"SupplierPayment", "PaymentMethod">>}
=============================================================================
