---------------------------- MODULE MCSalesLedger ----------------------------
(* Small instances of SalesLedger: two tills serve one customer or another. *)
EXTENDS SalesLedger, TLC

CONSTANTS cust1, cust2, sale1, sale2, till1, till2

\* Two units for three: the price of one does not divide.
Pair == [qty |-> 2, total |-> 3]
Single == [qty |-> 1, total |-> 1]
AllCarts == {Pair, Single}
SingleCarts == {Single}

\* The second customer has store credit, and a limit that two sales exceed.
MCOpening == [c \in Customers |-> [owed |-> 0, store |-> IF c = cust2 THEN 1 ELSE 0]]
MCLimit == [c \in Customers |-> IF c = cust2 THEN 1 ELSE 0]
Rows == Sales \cup Customers \cup {"business", "branch"}
SameSales == Permutations(Sales)

CustomerOf(q) == IF q.op \in {"sell", "collect"} THEN q.customer ELSE sale[q.sale].customer
Requests == {req[s] : s \in Sessions} \ {NoRow}
Engaged == {CustomerOf(q) : q \in Requests} \cup {sale[x].customer : x \in Existing}

\* The first customer buys one pair and does everything with it; the second one
\* buys twice, on credit and for store credit, and voids and returns.
Fits(q) ==
    IF CustomerOf(q) = cust1
    THEN q.op = "sell" => q.sale = sale1 /\ q.cart = Pair
    ELSE /\ q.op \in {"sell", "void", "return"}
         /\ q.op = "sell" => q.cart = Single
         /\ q.op = "return" => q.method = "store"

OneCustomer == Cardinality(Engaged) <= 1 /\ \A q \in Requests : Fits(q)

MCFairSpec == Init /\ [][Next /\ OneCustomer']_vars /\ Fairness
=============================================================================
