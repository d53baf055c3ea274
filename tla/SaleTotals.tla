----------------------------- MODULE SaleTotals -----------------------------
(***************************************************************************)
(* What a cart costs: compute_line, _allocate_discount,                    *)
(* calculate_sale_totals and calculate_payment_totals of                   *)
(* apps/sales/calculations.py, and the change that complete_sale gives.    *)
(*                                                                         *)
(* Amounts are whole numbers of the money unit (0.001), quantities whole   *)
(* units, rates percent.  A CalculationError is a refused cart.            *)
(***************************************************************************)
EXTENDS Integers, FiniteSetsExt, SequencesExt

\* ROUND_HALF_UP: halves away from zero.
HalfUp(n, d) ==
    IF n >= 0 THEN (2 * n + d) \div (2 * d) ELSE - ((- (2 * n) + d) \div (2 * d))

CartLine == [qty : Nat \ {0}, price : Nat, off : Nat, rate : Nat, inclusive : BOOLEAN]

SumOver(S, f(_)) == FoldSet(LAMBDA i, sum : sum + f(i), 0, S)

\* compute_line before the discount of the invoice: a price that includes the
\* tax is taken apart.
Gross(line) == line.price * line.qty - line.off
BaseBefore(line) ==
    IF line.rate > 0 /\ line.inclusive
    THEN HalfUp(100 * Gross(line), 100 + line.rate) ELSE Gross(line)

CartSubtotal(lines) == SumOver(DOMAIN lines, LAMBDA i : BaseBefore(lines[i]))

\* _allocate_discount: by weight, each share rounded, the rest on the last line.
ShareOf(lines, discount, i) ==
    HalfUp(discount * BaseBefore(lines[i]), CartSubtotal(lines))
AllRounded(lines, discount) ==
    [i \in DOMAIN lines |-> IF discount = 0 THEN 0 ELSE ShareOf(lines, discount, i)]
Shares(lines, discount) ==
    IF discount = 0 \/ CartSubtotal(lines) = 0 THEN [i \in DOMAIN lines |-> 0]
    ELSE [i \in DOMAIN lines |->
             IF i < Len(lines) THEN ShareOf(lines, discount, i)
             ELSE discount - SumOver(1 .. Len(lines) - 1,
                                     LAMBDA j : ShareOf(lines, discount, j))]

\* Every reason to refuse the cart.
LinesStand(lines) == \A i \in DOMAIN lines : Gross(lines[i]) >= 0
DiscountStands(lines, discount) == discount <= CartSubtotal(lines)
SharesStandBelow(lines, discount) ==
    \A i \in DOMAIN lines : Shares(lines, discount)[i] <= BaseBefore(lines[i])
SharesStand(lines, discount) ==
    \A i \in DOMAIN lines : Shares(lines, discount)[i] \in 0 .. BaseBefore(lines[i])

Accepted(lines, discount) ==
    LinesStand(lines) /\ DiscountStands(lines, discount) /\ SharesStand(lines, discount)

Booked(lines, discount) == [i \in DOMAIN lines |->
    LET base == BaseBefore(lines[i]) - Shares(lines, discount)[i]
        tax == HalfUp(base * lines[i].rate, 100)
    IN  [base |-> base, tax |-> tax, total |-> base + tax]]

\* calculate_sale_totals; step is the smallest amount of the currency that the
\* business shows, 1 when totals are not rounded.
Totals(lines, discount, step) ==
    LET booked == Booked(lines, discount)
        raw == SumOver(DOMAIN lines, LAMBDA i : booked[i].total)
        total == step * HalfUp(raw, step)
    IN  [lines |-> booked, total |-> total, rounding |-> total - raw,
         tax |-> SumOver(DOMAIN lines, LAMBDA i : booked[i].tax)]

\* calculate_payment_totals, over the payment rows of the till.
PaymentRow == [kind : {"cash", "card", "credit", "store"}, amount : Nat \ {0}]

PaidWith(rows, kinds) ==
    SumOver({n \in DOMAIN rows : rows[n].kind \in kinds}, LAMBDA n : rows[n].amount)
PayTotal(rows) == PaidWith(rows, {"cash", "card", "credit", "store"})

\* complete_sale: more than the total only in cash, and the change is what is
\* too much of it.
Change(rows, total) == PayTotal(rows) - total
SettlesWithAny(rows, total) == PayTotal(rows) >= total
Settles(rows, total) ==
    PayTotal(rows) >= total /\ PaidWith(rows, {"cash"}) >= Change(rows, total)
AmountPaid(rows, total) ==
    PayTotal(rows) - Change(rows, total) - PaidWith(rows, {"credit"})

\* The payments that are stored: the change is taken off the first row in cash,
\* and the row is left out when nothing is left of it.
StoredPayments(rows, change) ==
    LET cash == {n \in DOMAIN rows : rows[n].kind = "cash"}
        first == Min(cash)
    IN  IF change = 0 \/ cash = {} THEN rows
        ELSE IF rows[first].amount <= change THEN RemoveAt(rows, first)
        ELSE [rows EXCEPT ![first].amount = @ - change]

-----------------------------------------------------------------------------
(* Properties of a cart that is accepted                                    *)

\* The discount that the lines were given is the discount of the invoice, no
\* line is driven below nothing, and what the customer owes is the lines, the
\* tax and the rounding: at most half a step.
TotalsAddUp(lines, discount, step) == Accepted(lines, discount) =>
    LET t == Totals(lines, discount, step)
    IN  /\ SumOver(DOMAIN lines, LAMBDA i : BaseBefore(lines[i]) - t.lines[i].base) = discount
        /\ \A i \in DOMAIN lines : t.lines[i].base >= 0 /\ t.lines[i].tax >= 0
        /\ t.total = CartSubtotal(lines) - discount + t.tax + t.rounding
        /\ 2 * t.rounding \in -step .. step

\* What is settled is the total: paid now or on credit, the change is less
\* than the cash, and one row in cash is stored net of it.
PaymentsAddUp(rows, total) == Settles(rows, total) =>
    /\ AmountPaid(rows, total) \in 0 .. total
    /\ AmountPaid(rows, total) + PaidWith(rows, {"credit"}) = total
    /\ Cardinality({n \in DOMAIN rows : rows[n].kind = "cash"}) <= 1 =>
          PayTotal(StoredPayments(rows, Change(rows, total))) = total

\* complete_sale: "store net cash received", in however many rows it came.
\* False: change that is more than the first row is dropped with that row.
NetCashStored(rows, total) == Settles(rows, total) =>
    PayTotal(StoredPayments(rows, Change(rows, total))) = total

\* A discount that the subtotal covers can be given.
DiscountCanBeGiven(lines, discount) ==
    LinesStand(lines) /\ DiscountStands(lines, discount) => Accepted(lines, discount)
=============================================================================
