------------------------------ MODULE Checkout ------------------------------
(***************************************************************************)
(* The till and its checkout: the cart of templates/pos/pos.html with its  *)
(* token, pos_checkout, pos_hold and pos_held_delete of                    *)
(* apps/sales/views.py, and complete_sale with next_invoice_number of      *)
(* apps/sales/services.py.  A till may lose the answer to its request and  *)
(* post again while the first request still runs; carts are parked,        *)
(* resumed and parked again; branches share and change invoice prefixes.   *)
(*                                                                         *)
(* The locks on warehouse, customer, register and shift lie inside the one *)
(* on the branch and are left out.  What a sale does to stock and accounts *)
(* is in StockLedger and SalesLedger.                                      *)
(***************************************************************************)
EXTENDS WebRequests, Integers, FiniteSetsExt

CONSTANTS
    Tills,          \* browser tabs of the POS screen
    CashierOf,      \* who works at each till
    BranchOf,       \* and for which branch
    Carts,          \* what may be in a cart: goods and customer
    HeldIds,        \* identities of held carts
    Gone,           \* the place of a held cart that was deleted
    Branches,
    InvoicePrefixes,    \* what Branch.invoice_prefix may be, None when unset
    SegmentBranch,  \* Settings.invoice_include_branch_code
    MaxToken,       \* bound: tokens that a tab draws
    Opening,        \* the prefixes at first
    MaxPosts,       \* bound: requests that the tabs post
    MaxRenames      \* bound: changes of an invoice prefix

ASSUME CheckoutConstants ==
    /\ BranchOf \in [Tills -> Branches] /\ Tills \subseteq DOMAIN CashierOf
    /\ Carts # {} /\ \A c \in Carts : DOMAIN c = {"goods", "customer"}
    /\ Branches \cup HeldIds \cup {Business} \subseteq Lockable
    /\ None # Gone /\ None \notin HeldIds \cup Branches \cup Tills \cup Sessions
    /\ SegmentBranch \in BOOLEAN /\ Opening \in [Branches -> InvoicePrefixes]
    /\ MaxToken \in Nat \ {0} /\ MaxPosts \in Nat /\ MaxRenames \in Nat

VARIABLES
    sales,          \* the committed sales
    parked,         \* HeldSale, or None
    prefix,         \* Branch.invoice_prefix
    renames,        \* how often a prefix was changed
    sequence,       \* InvoiceSequence.last_number per branch, and for the business
    till,           \* what each tab shows
    posts           \* how many requests were posted

checkoutVars == <<sales, parked, prefix, renames, sequence, till, posts>>
allCheckoutVars == <<webVars, checkoutVars>>

Token == Tills \X (1 .. MaxToken)

Sale == [token : Token, cashier : {CashierOf[t] : t \in Tills}, branch : Branches,
         cart : Carts, number : Seq(InvoicePrefixes \cup Branches \cup {"INV"}) \X (Nat \ {0})]

\* waits is the request whose answer the tab waits for, told the answer that
\* it got and the cart it had posted.
Till == [cart : Carts, token : Token, drawn : 1 .. MaxToken, resumed : HeldIds \cup {None},
         waits : Sessions \cup {None}, told : {None} \cup [sale : Sale, token : Token, cart : Carts]]

\* What the next customer brings is entered with EditCart.
AnyCart == CHOOSE c \in Carts : TRUE

CheckoutInit ==
    /\ WebInit
    /\ sales = {}
    /\ parked = [h \in HeldIds |-> None]
    /\ prefix = Opening /\ renames = 0 /\ posts = 0
    /\ sequence = [b \in Branches \cup {None} |-> 0]
    /\ till = [t \in Tills |-> [cart |-> AnyCart, token |-> <<t, 1>>, drawn |-> 1,
                              resumed |-> None, waits |-> None, told |-> None]]

-----------------------------------------------------------------------------
(* The tab.  It waits for the answer to its request, but no longer than the *)
(* network lets it: after an error it keeps the cart and the token.         *)

Parked(h) == parked[h] \notin {None, Gone}

Idle(t) == till[t].waits = None
Selling(t) == Idle(t) /\ till[t].told = None

EditCart(t) == \E c \in Carts :
    /\ Selling(t) /\ c # till[t].cart
    /\ till' = [till EXCEPT ![t].cart = c]
    /\ UNCHANGED <<webVars, sales, parked, prefix, renames, sequence, posts>>

Emptied(t) ==
    [till[t] EXCEPT !.cart = AnyCart, !.token = <<t, till[t].drawn + 1>>, !.drawn = @ + 1,
                    !.resumed = None, !.told = None]

NewSale(t) ==
    /\ Idle(t) /\ till[t].drawn < MaxToken
    /\ till' = [till EXCEPT ![t] = Emptied(t)]
    /\ UNCHANGED <<webVars, sales, parked, prefix, renames, sequence, posts>>

\* hold_sale parks the cart with its token; the row it was resumed from stays.
HoldSale(t) == \E h \in HeldIds :
    /\ Selling(t) /\ parked[h] = None /\ till[t].drawn < MaxToken
    /\ parked' = [parked EXCEPT ![h] =
                     [cart |-> till[t].cart, token |-> till[t].token,
                      cashier |-> CashierOf[t], branch |-> BranchOf[t]]]
    /\ till' = [till EXCEPT ![t] = Emptied(t)]
    /\ UNCHANGED <<webVars, sales, prefix, renames, sequence, posts>>

\* pos_held_list shows the cashier's own carts, those of other branches, too.
ResumeHeld(t) == \E h \in HeldIds :
    /\ Idle(t) /\ Parked(h) /\ parked[h].cashier = CashierOf[t]
    /\ till' = [till EXCEPT ![t].cart = parked[h].cart, ![t].token = parked[h].token,
                            ![t].resumed = h, ![t].told = None]
    /\ UNCHANGED <<webVars, sales, parked, prefix, renames, sequence, posts>>

HeldIsFree(h) == \A s \in Sessions : h \notin held[s]

DeleteHeld(t, h) ==
    /\ Idle(t) /\ Parked(h) /\ parked[h].cashier = CashierOf[t] /\ HeldIsFree(h)
    /\ parked' = [parked EXCEPT ![h] = Gone]
    /\ UNCHANGED <<webVars, sales, prefix, renames, sequence, till, posts>>

NetworkError(t) ==
    /\ ~ Idle(t)
    /\ till' = [till EXCEPT ![t].waits = None]
    /\ UNCHANGED <<webVars, sales, parked, prefix, renames, sequence, posts>>

\* The settings form of a branch.
RenamePrefix(b) == \E p \in InvoicePrefixes \ {prefix[b]} :
    /\ renames < MaxRenames
    /\ prefix' = [prefix EXCEPT ![b] = p]
    /\ renames' = renames + 1
    /\ UNCHANGED <<webVars, sales, parked, sequence, till, posts>>

-----------------------------------------------------------------------------
(* The request                                                             *)

BranchOfTill(s) == BranchOf[req[s].till]
Cashier(s) == CashierOf[req[s].till]

SoldUnder(tok) == {x \in sales : x.token = tok}

\* _validate_checkout_replay: the token was used by this cashier, for this
\* branch and customer.
OwnOfCashier(s, x) == x.cashier = Cashier(s)
OwnSale(s, x) ==
    /\ x.cashier = Cashier(s)
    /\ x.branch = BranchOfTill(s)
    /\ x.cart.customer = req[s].cart.customer

\* The answer reaches the tab unless it has stopped waiting for it.
Tell(s, answer) ==
    LET t == req[s].till
    IN  till' = IF till[t].waits = s
                THEN [till EXCEPT ![t].waits = None, ![t].told = answer]
                ELSE till
Sold(s, x) == [sale |-> x, token |-> req[s].token, cart |-> req[s].cart]

Replay(s, x) == IF OwnSale(s, x) THEN Tell(s, Sold(s, x)) ELSE Tell(s, None)

Without(h) == IF h = None THEN parked ELSE [parked EXCEPT ![h] = Gone]

\* pos_checkout looks for a sale of this token, without a lock, when the
\* request arrives.
Post(t, s) ==
    /\ Selling(t) /\ posts < MaxPosts
    /\ LET h == till[t].resumed
           stage == CASE SoldUnder(till[t].token) # {} -> "replay"
                      [] h # None -> "held"
                      [] OTHER -> "sell"
           rows == CASE stage = "replay" -> <<>>
                     [] stage = "held" -> <<h>>
                     [] OTHER -> <<BranchOf[t]>>
       IN  Begin(s, [op |-> stage, till |-> t, cart |-> till[t].cart,
                     token |-> till[t].token, resumed |-> h, number |-> None], rows)
    /\ till' = [till EXCEPT ![t].waits = s]
    /\ posts' = posts + 1
    /\ UNCHANGED <<sales, parked, prefix, renames, sequence>>

\* A replay cleans up the held cart that carried the token.
Carried(s, h) ==
    /\ Parked(h)
    /\ parked[h].token = req[s].token
    /\ parked[h].cashier = Cashier(s) /\ parked[h].branch = BranchOfTill(s)

FindSale(s) ==
    /\ Ready(s) /\ req[s].op = "replay"
    /\ \E x \in SoldUnder(req[s].token) :
          /\ Replay(s, x)
          /\ LET h == req[s].resumed
             IN  IF h # None /\ OwnSale(s, x) /\ Carried(s, h)
                 THEN HeldIsFree(h) /\ parked' = Without(h)
                 ELSE UNCHANGED parked
    /\ End(s)
    /\ UNCHANGED <<sales, prefix, renames, sequence, posts>>

Advance(s, stage, rows) ==
    /\ req' = [req EXCEPT ![s].op = stage]
    /\ Ask(s, rows)
    /\ UNCHANGED seen

CheckoutRow(row) == IF row \in HeldIds THEN parked[row] ELSE None

LockCheckout(s) == ReadLocked(s, CheckoutRow) /\ UNCHANGED checkoutVars

\* The held cart is of this branch and token; when it is gone, another
\* request may have sold it.
CheckHeld(s) ==
    /\ Ready(s) /\ req[s].op = "held"
    /\ LET h == seen[s][req[s].resumed]
           mine == h # Gone /\ h.cashier = Cashier(s)
           own == {x \in SoldUnder(req[s].token) : OwnSale(s, x)}
       IN  IF mine /\ h.branch = BranchOfTill(s) /\ h.token = req[s].token
           THEN Advance(s, "sell", <<BranchOfTill(s)>>) /\ UNCHANGED till
           ELSE /\ End(s)
                /\ IF ~ mine /\ own # {} THEN Tell(s, Sold(s, CHOOSE x \in own : TRUE))
                                         ELSE Tell(s, None)
    /\ UNCHANGED <<sales, parked, prefix, renames, sequence, posts>>

\* complete_sale looks for the token again behind its locks.
Recheck(s) ==
    /\ Ready(s) /\ req[s].op = "sell"
    /\ IF SoldUnder(req[s].token) = {}
       THEN Advance(s, "number", <<Business>>) /\ UNCHANGED <<till, parked>>
       ELSE \E x \in SoldUnder(req[s].token) :
              /\ Replay(s, x)
              /\ parked' = IF OwnSale(s, x) THEN Without(req[s].resumed) ELSE parked
              /\ End(s)
    /\ UNCHANGED <<sales, prefix, renames, sequence, posts>>

\* next_invoice_number: a branch with a prefix counts for itself, the others
\* share the prefix and the counter of the business, or only the prefix.
Counter(b) == IF prefix[b] # None \/ SegmentBranch THEN b ELSE None
Base(b) ==
    IF prefix[b] # None THEN <<prefix[b]>>
    ELSE IF SegmentBranch THEN <<"INV", b>> ELSE <<"INV">>

NumbersUnder(base) == {x.number[2] : x \in {y \in sales : y.number[1] = base}}

\* The next number, or the one after the highest number of the prefix.
NextOfCounter(b) == sequence[Counter(b)] + 1
NextNumber(b) ==
    LET next == sequence[Counter(b)] + 1
        used == NumbersUnder(Base(b))
    IN  IF next \in used THEN Max(used \cup {next}) + 1 ELSE next

NumberSale(s) ==
    /\ Ready(s) /\ req[s].op = "number"
    /\ SoldUnder(req[s].token) = {}
    /\ req' = [req EXCEPT ![s].op = "insert",
                          ![s].number = <<Base(BranchOfTill(s)), NextNumber(BranchOfTill(s)),
                                          Counter(BranchOfTill(s))>>]
    /\ UNCHANGED <<want, held, seen, checkoutVars>>

\* The token is unique in the database: the savepoint undoes the number and
\* the insert, and the sale that won is returned.
TokenCollision(s) ==
    /\ Ready(s) /\ req[s].op = "number"
    /\ \E x \in SoldUnder(req[s].token) :
          /\ Replay(s, x)
          /\ parked' = IF OwnSale(s, x) THEN Without(req[s].resumed) ELSE parked
    /\ End(s)
    /\ UNCHANGED <<sales, prefix, renames, sequence, posts>>

NewSaleOf(s) ==
    [token |-> req[s].token, cashier |-> Cashier(s), branch |-> BranchOfTill(s),
     cart |-> req[s].cart,
     number |-> <<req[s].number[1], req[s].number[2]>>]

CommitSale(s) ==
    /\ Ready(s) /\ req[s].op = "insert"
    /\ sales' = sales \cup {NewSaleOf(s)}
    /\ sequence' = [sequence EXCEPT ![req[s].number[3]] = req[s].number[2]]
    /\ parked' = Without(req[s].resumed)
    /\ Tell(s, Sold(s, NewSaleOf(s)))
    /\ End(s)
    /\ UNCHANGED <<prefix, renames, posts>>

\* Behind the end of the transaction, the held cart would be lost with a
\* sale that was refused.
RefuseOutsideAtomic(s) ==
    /\ req[s] # None
    /\ Tell(s, None)
    /\ End(s)
    /\ parked' = Without(req[s].resumed)
    /\ UNCHANGED <<sales, prefix, renames, sequence, posts>>

\* Stock, credit or the shift refuse the sale, or the worker is lost.
RefuseSale(s) ==
    /\ req[s] # None
    /\ Tell(s, None)
    /\ End(s)
    /\ UNCHANGED <<sales, parked, prefix, renames, sequence, posts>>

CheckoutStep(s) ==
    \/ FindSale(s) \/ LockCheckout(s) \/ CheckHeld(s) \/ Recheck(s)
    \/ NumberSale(s) \/ TokenCollision(s) \/ CommitSale(s) \/ RefuseSale(s)

CheckoutNext ==
    \/ \E t \in Tills :
          \/ EditCart(t) \/ NewSale(t) \/ HoldSale(t) \/ ResumeHeld(t) \/ NetworkError(t)
          \/ \E h \in HeldIds : DeleteHeld(t, h)
          \/ \E s \in Sessions : Post(t, s)
    \/ \E b \in Branches : RenamePrefix(b)
    \/ \E s \in Sessions : CheckoutStep(s)

CheckoutSpec == CheckoutInit /\ [][CheckoutNext]_allCheckoutVars

-----------------------------------------------------------------------------
(* Properties                                                              *)

\* However often a cart is posted, by whichever tab, it is sold once.
OneSalePerToken == \A x, y \in sales : x.token = y.token => x = y

\* The number that a request was given is still free when it commits, though
\* branches share prefixes, change them, and count for themselves.
NumbersAreFree ==
    /\ \A x, y \in sales : x.number = y.number => x = y
    /\ \A s \in Sessions : req[s] # None /\ req[s].op = "insert" =>
          \A x \in sales : x.number # <<req[s].number[1], req[s].number[2]>>

\* A tab is told of a sale only if its own cashier made it, in its branch, to
\* the customer it had posted, under the token it had posted: a replay leaks
\* nobody else's sale.
AnswersAreOwn == \A t \in Tills : till[t].told # None =>
    LET a == till[t].told
    IN  /\ a.sale \in sales
        /\ a.sale.token = a.token /\ a.sale.cart.customer = a.cart.customer
        /\ a.sale.cashier = CashierOf[t] /\ a.sale.branch = BranchOf[t]

\* "A replay must never delete another one of the cashier's carts": a held
\* cart leaves with the sale of its token, unless its cashier deletes it.
HeldLeavesWithSale ==
    [][\A h \in HeldIds : Parked(h) /\ parked'[h] = Gone =>
          \/ \E x \in sales' : x.token = parked[h].token
          \/ \E t \in Tills : DeleteHeld(t, h)]_allCheckoutVars

\* A cart is sold once, under a free number, each till is answered with its own
\* sale, and parked carts stay until they are sold or deleted.
CheckoutIsSafe ==
    [](OneSalePerToken /\ NumbersAreFree /\ AnswersAreOwn) /\ HeldLeavesWithSale

\* _validate_checkout_replay: "Prevent a token from being reused for a
\* different sale context."  The tab is told that the cart it posted is sold.
ToldOfItsCart == \A t \in Tills : till[t].told # None =>
    till[t].told.sale.cart = till[t].told.cart
=============================================================================
