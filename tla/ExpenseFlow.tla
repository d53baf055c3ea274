----------------------------- MODULE ExpenseFlow -----------------------------
(***************************************************************************)
(* An expense from its entry to the decision, and the fixed expenses that  *)
(* are generated month by month: apps/expenses/views.py and services.py.   *)
(* The views read the expense or template before any lock and hand that    *)
(* copy to the service, which saves all of it: a request carries its copy. *)
(*                                                                         *)
(* Payments from a drawer are in CashDrawer.  A number that two entries    *)
(* compute at once fails one of them at the unique constraint.             *)
(***************************************************************************)
EXTENDS WebRequests, Integers, SequencesExt

CONSTANTS
    Actors,         \* members with expenses.manage
    Approvers,      \* those who may approve as well
    ExpenseIds,     \* identities of expenses that are entered by hand
    FixedOrder,     \* identities of fixed expenses, as the queries order them
    Months,         \* months that are generated
    Costs,          \* bound: amounts that are entered
    Threshold       \* Settings.expense_approval_threshold

FixedIds == ToSet(FixedOrder)
Generated == FixedIds \X Months

ASSUME ExpenseConstants ==
    /\ Approvers \subseteq Actors /\ None \notin Actors
    /\ Costs \subseteq Nat /\ Threshold \in Nat
    /\ ExpenseIds \cup FixedIds \cup Generated \subseteq Lockable
    /\ ExpenseIds \cap Generated = {}

VARIABLES
    expense,        \* Expense, or None, by hand or as <<fixed expense, month>>
    template,       \* RecurringExpenseTemplate, or None
    templatesMade   \* the fixed expenses that were ever entered

expenseVars == <<expense, template, templatesMade>>
allExpenseVars == <<webVars, expenseVars>>

\* by is approved_by, and default the amount it was generated with.
Expense == [amount : Costs, status : {"submitted", "approved", "rejected", "cancelled"},
            by : Actors \cup {None}, default : Costs \cup {None}]

\* The months between start_date and end_date to which it applies.
Template == [amount : Costs, active : BOOLEAN, months : SUBSET Months]

ASSUME NoneIsNoExpense == None \notin Expense \cup Template

ExpensesInit ==
    /\ WebInit
    /\ expense = [e \in ExpenseIds \cup Generated |-> None]
    /\ template = [f \in FixedIds |-> None]
    /\ templatesMade = {}

-----------------------------------------------------------------------------
(* Requests                                                                *)

Entered == {e \in DOMAIN expense : expense[e] # None}
Fixed == {f \in FixedIds : template[f] # None}

RequestExpense(s, q, rows) == Begin(s, q, rows) /\ UNCHANGED expenseVars

RequestEntry(s) == \E e \in ExpenseIds \ Entered, a \in Actors, c \in Costs :
    /\ \A r \in Sessions : req[r] # None /\ req[r].op = "enter" => req[r].id # e
    /\ RequestExpense(s, [op |-> "enter", id |-> e, actor |-> a, amount |-> c], <<>>)

\* "Approved or paid expenses cannot be edited", but generated ones can.
EditableCopy(e, copy) ==
    \/ copy.status \in {"submitted", "rejected"}
    \/ copy.status = "approved" /\ e \in Generated

RequestEdit(s) == \E e \in Entered, a \in Actors, c \in Costs :
    /\ EditableCopy(e, expense[e])
    /\ RequestExpense(s, [op |-> "edit", id |-> e, actor |-> a, amount |-> c,
                          copy |-> expense[e]], << e >>)

\* An approver corrects the payment medium of a decided expense.
RequestMedium(s) == \E e \in Entered :
    /\ ~ EditableCopy(e, expense[e])
    /\ RequestExpense(s, [op |-> "medium", id |-> e, copy |-> expense[e]], << e >>)

\* expense_action looks at the status that it read without a lock.
Decidable(status, to) ==
    IF to = "cancelled" THEN status \in {"submitted", "approved"} ELSE status = "submitted"

RequestDecision(s) == \E e \in Entered, a \in Approvers :
    \E to \in {"approved", "rejected", "cancelled"} :
        /\ Decidable(expense[e].status, to)
        /\ RequestExpense(s, [op |-> "decide", id |-> e, actor |-> a, to |-> to], << e >>)

\* A new template is inserted, another one is saved as the form read it.
RequestTemplate(s) == \E f \in FixedIds, c \in Costs, ms \in SUBSET Months \ {{}} :
    \/ /\ f \notin templatesMade
       /\ templatesMade' = templatesMade \cup {f}
       /\ Begin(s, [op |-> "template", id |-> f,
                    row |-> [amount |-> c, active |-> TRUE, months |-> ms]], << f >>)
       /\ UNCHANGED <<expense, template>>
    \/ /\ f \in Fixed
       /\ RequestExpense(s, [op |-> "template", id |-> f,
             row |-> [template[f] EXCEPT !.amount = c, !.months = ms]], << f >>)

RequestActive(s) == \E f \in Fixed, on \in BOOLEAN :
    RequestExpense(s, [op |-> "active", id |-> f, on |-> on], << f >>)

HistoryOf(f) == {e \in Entered \cap Generated : e[1] = f}

\* recurring_template_delete looks for history, and again behind the lock.
RequestDelete(s) == \E f \in Fixed :
    /\ HistoryOf(f) = {}
    /\ RequestExpense(s, [op |-> "delete", id |-> f], << f >>)

\* The list, the dashboard and the reports generate what is due in a month.
RequestMonth(s) == \E m \in Months :
    LET Due(f) == f \in Fixed /\ template[f].active /\ m \in template[f].months
        due == SelectSeq(FixedOrder, Due)
    IN  due # <<>> /\ RequestExpense(s, [op |-> "month", month |-> m], due)

RowOf(row) == IF row \in FixedIds THEN template[row] ELSE expense[row]

LockExpense(s) == ReadLocked(s, RowOf) /\ UNCHANGED expenseVars

-----------------------------------------------------------------------------
(* Commits                                                                 *)

Answers(s, op) == Ready(s) /\ req[s].op = op /\ End(s)

NeedsApproval(actor, amount) ==
    Threshold > 0 /\ amount >= Threshold /\ actor \notin Approvers

\* The form and the view fill in the copy; approved_by stays as it was when
\* somebody else has to approve.
SavesAmountOnly(row, copy, amount, actor) == [row EXCEPT !.amount = amount]
Saved(row, copy, amount, actor) ==
    IF NeedsApproval(actor, amount)
    THEN [copy EXCEPT !.amount = amount, !.status = "submitted"]
    ELSE [copy EXCEPT !.amount = amount, !.status = "approved", !.by = actor]

Blank == [amount |-> 0, status |-> "submitted", by |-> None, default |-> None]

SaveEntry(s) ==
    /\ Answers(s, "enter")
    /\ expense' = [expense EXCEPT ![req[s].id] =
                      Saved(Blank, Blank, req[s].amount, req[s].actor)]
    /\ UNCHANGED <<template, templatesMade>>

SaveEdit(s) ==
    /\ Answers(s, "edit")
    /\ expense' = [expense EXCEPT ![req[s].id] =
                      Saved(seen[s][req[s].id], req[s].copy, req[s].amount, req[s].actor)]
    /\ UNCHANGED <<template, templatesMade>>

SaveMedium(s) ==
    /\ Answers(s, "medium")
    /\ expense' = [expense EXCEPT ![req[s].id] = req[s].copy]
    /\ UNCHANGED <<template, templatesMade>>

\* set_expense_status writes the status whatever the locked row says.
SetExpenseStatus(s) ==
    /\ Answers(s, "decide")
    /\ expense' = [expense EXCEPT ![req[s].id].status = req[s].to,
                                  ![req[s].id].by =
                      IF req[s].to = "cancelled" THEN @ ELSE req[s].actor]
    /\ UNCHANGED <<template, templatesMade>>

\* save() inserts a template again that was deleted meanwhile.
SaveTemplate(s) ==
    /\ Answers(s, "template")
    /\ template' = [template EXCEPT ![req[s].id] = req[s].row]
    /\ UNCHANGED <<expense, templatesMade>>

SetActive(s) ==
    /\ Answers(s, "active") /\ seen[s][req[s].id] # None
    /\ template' = [template EXCEPT ![req[s].id].active = req[s].on]
    /\ UNCHANGED <<expense, templatesMade>>

DeleteTemplate(s) ==
    /\ Answers(s, "delete") /\ seen[s][req[s].id] # None
    /\ HistoryOf(req[s].id) = {}
    /\ template' = [template EXCEPT ![req[s].id] = None]
    /\ UNCHANGED <<expense, templatesMade>>

\* get_or_create: what the month already has is not generated again.  A
\* template that no longer matches when its lock is granted drops out.
GenerateMonth(s) ==
    /\ Answers(s, "month")
    /\ expense' = [e \in DOMAIN expense |->
          IF /\ e \in Generated /\ expense[e] = None
             /\ e[2] = req[s].month /\ e[1] \in DOMAIN seen[s]
             /\ seen[s][e[1]] # None
             /\ seen[s][e[1]].active /\ e[2] \in seen[s][e[1]].months
          THEN LET amount == seen[s][e[1]].amount
               IN  [amount |-> amount, status |-> "approved", by |-> None,
                    default |-> amount]
          ELSE expense[e]]
    /\ UNCHANGED <<template, templatesMade>>

\* A refusal, a number already taken, the loss of the worker, a deadlock.
AbandonExpense(s) == RollBack(s) /\ UNCHANGED expenseVars

ExpensesStep(s) ==
    \/ LockExpense(s)
    \/ SaveEntry(s) \/ SaveEdit(s) \/ SaveMedium(s) \/ SetExpenseStatus(s)
    \/ SaveTemplate(s) \/ SetActive(s) \/ DeleteTemplate(s) \/ GenerateMonth(s)
    \/ AbandonExpense(s)

ExpensesNext == \E s \in Sessions :
    \/ RequestEntry(s) \/ RequestEdit(s) \/ RequestMedium(s) \/ RequestDecision(s)
    \/ RequestTemplate(s) \/ RequestActive(s) \/ RequestDelete(s) \/ RequestMonth(s)
    \/ ExpensesStep(s)

ExpensesSpec == ExpensesInit /\ [][ExpensesNext]_allExpenseVars

-----------------------------------------------------------------------------
(* Properties                                                              *)

ExpensesTypeOK ==
    /\ expense \in [ExpenseIds \cup Generated -> Expense \cup {None}]
    /\ template \in [FixedIds -> Template \cup {None}]
    /\ templatesMade \subseteq FixedIds

\* expense_approval_threshold: an expense at or over it counts as approved
\* only when somebody who may approve decided so, or it is a fixed expense of
\* the amount it was generated with, whichever copies are saved late.
ApprovedByRight == \A e \in Entered :
    expense[e].status = "approved" /\ Threshold > 0 /\ expense[e].amount >= Threshold =>
        expense[e].by \in Approvers \/ expense[e].amount = expense[e].default

\* recurring_template_delete: "already has monthly history and cannot be
\* deleted", though a report may generate it at the same time.
HistoryKeepsTemplate == \A e \in Entered \cap Generated : template[e[1]] # None

ExpensesAreApproved == ApprovedByRight /\ HistoryKeepsTemplate

\* expense_create: "Approved or paid expenses cannot be edited" by those who
\* may not approve.  False: the copy that allowed the edit may be old.
DecidedStays == [][\A s \in Sessions :
    SaveEdit(s) /\ req[s].actor \notin Approvers =>
        EditableCopy(req[s].id, expense[req[s].id])]_allExpenseVars
=============================================================================
