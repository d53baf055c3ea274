-------------------------- MODULE SalesLedgerProofs --------------------------
(***************************************************************************)
(* What SalesLedger guarantees for any number of sessions, sales and       *)
(* customers, any carts and any amounts.  A request decides from what it   *)
(* read when it locked a row.  That is still true when it commits, because *)
(* whoever changes a row holds its lock, and locks exclude each other.     *)
(* This is the inductive invariant; the rest is arithmetic of one request. *)
(***************************************************************************)
EXTENDS SalesLedger, SumTheorems

RowsIn(w) == {w[i] : i \in 1 .. Len(w)}

OnSale == {"pay", "void", "return"}
OnAccount == {"sell", "collect"}

\* The rows that a request locks before it decides.
RowsOf(q) == {"business", "branch"}
             \cup IF q.op \in OnAccount THEN {q.customer}
                  ELSE {q.sale, sale[q.sale].customer}

LocksInv ==
    /\ Exclusive
    /\ \A s \in Sessions : req[s] = NoRow => held[s] = {} /\ want[s] = <<>>
    /\ \A s \in Sessions : req[s] # NoRow => held[s] \cup RowsIn(want[s]) = RowsOf(req[s])

\* A sale that is being made does not exist yet and is made by one request;
\* every other request is about a sale that exists.
RequestsInv == \A s \in Sessions : req[s] # NoRow =>
    /\ req[s].op = "sell" =>
          /\ sale[req[s].sale] = NoRow
          /\ req[s].credit + req[s].store <= req[s].cart.total
          /\ \A r \in Sessions \ {s} :
                req[r] # NoRow => ~ (req[r].op = "sell" /\ req[r].sale = req[s].sale)
    /\ req[s].op \in OnSale => sale[req[s].sale] # NoRow

\* What was read of a locked row is still what the row says.
ReadsInv == \A s \in Sessions : req[s] # NoRow =>
    /\ req[s].op \in OnSale /\ req[s].sale \in held[s] =>
          read[s].sale = sale[req[s].sale]
    /\ req[s].op \in OnAccount /\ req[s].customer \in held[s] =>
          read[s].account = account[req[s].customer]

\* The arithmetic of one sale.
Sound(x) ==
    /\ x.paid <= x.total
    /\ x.credit <= x.total
    /\ x.returned <= x.qty
    /\ x.restored <= x.qty
    /\ x.status = "voided" => x.returned = 0
    /\ x.status # "voided" => x.restored <= x.returned
    /\ x.money + x.toStore + x.toAccount = RoundHalfUp(x.total, x.qty) * x.returned

SalesSound == \A x \in Existing : Sound(sale[x])

SalesInv ==
    TypeOK /\ LocksInv /\ RequestsInv /\ ReadsInv /\ SalesSound /\ StoreCreditNotOverdrawn

-----------------------------------------------------------------------------
(* Requests and lists of rows                                              *)

LEMMA RequestKinds ==
    ASSUME NEW q \in Request
    PROVE  /\ q.op \in {"sell", "pay", "void", "return", "collect"}
           /\ q.op = "sell" => q \in SellRequest
           /\ q.op = "pay" => q \in PayRequest
           /\ q.op = "void" => q \in VoidRequest
           /\ q.op = "return" => q \in ReturnRequest
           /\ q.op = "collect" => q \in CollectRequest
           /\ q.op \in OnSale => q.sale \in Sales
           /\ q.op \in OnAccount => q.customer \in Customers
           /\ q # NoRow
  BY NoRowIsEmpty
     DEF Request, SellRequest, PayRequest, VoidRequest, ReturnRequest, CollectRequest,
         OnSale, OnAccount

LEMMA FirstRow ==
    ASSUME NEW w \in Seq(Lockable), w # <<>>
    PROVE  /\ Head(w) \in Lockable
           /\ Tail(w) \in Seq(Lockable)
           /\ RowsIn(w) = {Head(w)} \cup RowsIn(Tail(w))
  <1>1. Len(w) \in Nat /\ Len(w) > 0 /\ Head(w) = w[1] /\ Head(w) \in Lockable
    OBVIOUS
  <1>2. /\ Tail(w) \in Seq(Lockable) /\ Len(Tail(w)) = Len(w) - 1
        /\ \A i \in 1 .. Len(w) - 1 : Tail(w)[i] = w[i + 1]
    OBVIOUS
  <1>3. RowsIn(w) \subseteq {Head(w)} \cup RowsIn(Tail(w))
    <2> SUFFICES ASSUME NEW i \in 1 .. Len(w), i # 1
                 PROVE  w[i] \in RowsIn(Tail(w))
      BY <1>1 DEF RowsIn
    <2>1. i - 1 \in 1 .. Len(w) - 1 /\ Tail(w)[i - 1] = w[i]
      BY <1>1, <1>2
    <2> QED BY <2>1, <1>2 DEF RowsIn
  <1>4. {Head(w)} \cup RowsIn(Tail(w)) \subseteq RowsIn(w)
    BY <1>1, <1>2 DEF RowsIn
  <1> QED BY <1>1, <1>2, <1>3, <1>4

LEMMA AskedRows ==
    ASSUME NEW q \in Request, TypeOK, q.op \in OnSale => sale[q.sale] # NoRow
    PROVE  LocksOf(q) \in Seq(Lockable) /\ RowsIn(LocksOf(q)) = RowsOf(q)
  <1>1. CASE q.op = "sell"
    <2>1. LocksOf(q) = << "branch", q.customer, "business" >>
      BY <1>1 DEF LocksOf
    <2>2. q.customer \in Customers
      BY <1>1, RequestKinds DEF OnAccount
    <2>3. RowsIn(LocksOf(q)) = {"branch", q.customer, "business"}
      BY <2>1 DEF RowsIn
    <2> QED BY <1>1, <2>1, <2>2, <2>3, SalesConstants DEF RowsOf, OnAccount
  <1>2. CASE q.op = "collect"
    <2>1. LocksOf(q) = << "business", q.customer, "branch" >>
      BY <1>2 DEF LocksOf
    <2>2. q.customer \in Customers
      BY <1>2, RequestKinds DEF OnAccount
    <2>3. RowsIn(LocksOf(q)) = {"branch", q.customer, "business"}
      BY <2>1 DEF RowsIn
    <2> QED BY <1>2, <2>1, <2>2, <2>3, SalesConstants DEF RowsOf, OnAccount
  <1>3. CASE q.op \in OnSale
    <2>1. LocksOf(q) = << q.sale, "business", "branch", sale[q.sale].customer >>
      BY <1>3 DEF LocksOf, OnSale
    <2>2. q.sale \in Sales /\ sale[q.sale].customer \in Customers
      BY <1>3, RequestKinds DEF TypeOK, Sale
    <2>3. RowsIn(LocksOf(q)) = {q.sale, "branch", "business", sale[q.sale].customer}
      BY <2>1 DEF RowsIn
    <2> QED BY <1>3, <2>1, <2>2, <2>3, SalesConstants DEF RowsOf, OnAccount, OnSale
  <1> QED BY <1>1, <1>2, <1>3, RequestKinds DEF OnSale

-----------------------------------------------------------------------------
(* A request that ends changes nothing that another one has read           *)

\* What the request of s may have done to a sale, and to an account.
SaleKept(s, x) ==
    \/ sale'[x] = sale[x]
    \/ /\ x \in held[s]
       /\ sale[x] # NoRow /\ sale'[x] # NoRow
       /\ sale'[x].customer = sale[x].customer
    \/ req[s].op = "sell" /\ req[s].sale = x
AccountKept(s, c) == account'[c] = account[c] \/ c \in held[s]

LEMMA OthersKeepTheirReads ==
    ASSUME TypeOK, LocksInv, RequestsInv, ReadsInv,
           NEW s \in Sessions, req[s] # NoRow, Done(s),
           \A x \in Sales : SaleKept(s, x),
           \A c \in Customers : AccountKept(s, c)
    PROVE  LocksInv' /\ RequestsInv' /\ ReadsInv'
  <1> USE DEF Done, Release
  <1>1. /\ req'[s] = NoRow /\ held'[s] = {} /\ want'[s] = <<>>
        /\ \A r \in Sessions \ {s} : /\ req'[r] = req[r] /\ read'[r] = read[r]
                                     /\ held'[r] = held[r] /\ want'[r] = want[r]
    BY DEF TypeOK, LocksTypeOK
  <1>2. ASSUME NEW r \in Sessions \ {s}, req[r] # NoRow, req[r].op \in OnSale
        PROVE  /\ req[r].sale \in Sales
               /\ sale[req[r].sale] # NoRow
               /\ sale'[req[r].sale] # NoRow
               /\ sale'[req[r].sale].customer = sale[req[r].sale].customer
               /\ req[r].sale \in held[r] => sale'[req[r].sale] = sale[req[r].sale]
    <2>1. req[r] \in Request /\ req[r].sale \in Sales
      BY <1>2, RequestKinds DEF TypeOK
    <2>2. sale[req[r].sale] # NoRow
      BY <1>2 DEF RequestsInv
    <2>3. ~ (req[s].op = "sell" /\ req[s].sale = req[r].sale)
      BY <2>2 DEF RequestsInv
    <2>4. req[r].sale \in held[r] => req[r].sale \notin held[s]
      BY DEF LocksInv, Exclusive
    <2> QED BY <2>1, <2>2, <2>3, <2>4 DEF SaleKept
  <1>3. ASSUME NEW r \in Sessions \ {s}, req[r] # NoRow, req[r].op \in OnAccount
        PROVE  /\ req[r].customer \in Customers
               /\ req[r].customer \in held[r] => account'[req[r].customer] = account[req[r].customer]
    <2>1. req[r].customer \in Customers
      BY <1>3, RequestKinds DEF TypeOK
    <2>2. req[r].customer \in held[r] => req[r].customer \notin held[s]
      BY DEF LocksInv, Exclusive
    <2> QED BY <2>1, <2>2 DEF AccountKept
  <1>4. ASSUME NEW r \in Sessions \ {s}, req[r] # NoRow, req[r].op = "sell"
        PROVE  sale[req[r].sale] = NoRow /\ sale'[req[r].sale] = NoRow
    <2>1. req[r].sale \in Sales
      BY <1>4, RequestKinds DEF TypeOK, SellRequest
    <2>2. sale[req[r].sale] = NoRow /\ ~ (req[s].op = "sell" /\ req[s].sale = req[r].sale)
      BY <1>4 DEF RequestsInv
    <2> QED BY <2>1, <2>2 DEF SaleKept
  <1>5. ASSUME NEW r \in Sessions \ {s}, req[r] # NoRow
        PROVE  RowsOf(req[r])' = RowsOf(req[r])
    <2>1. req[r].op \in OnAccount \/ req[r].op \in OnSale
      BY <1>5, RequestKinds DEF TypeOK, OnAccount, OnSale
    <2>2. req'[r] = req[r]
      BY <1>1
    <2> QED BY <1>2, <1>5, <2>1, <2>2 DEF RowsOf
  <1>6. LocksInv'
    <2>1. Exclusive'
      BY <1>1 DEF LocksInv, Exclusive
    <2>2. \A r \in Sessions : req'[r] = NoRow => held'[r] = {} /\ want'[r] = <<>>
      BY <1>1 DEF LocksInv
    <2>3. ASSUME NEW r \in Sessions, req'[r] # NoRow
          PROVE  (held[r] \cup RowsIn(want[r]))' = RowsOf(req[r])'
      BY <1>1, <1>5, <2>3 DEF LocksInv, RowsIn
    <2> QED BY <2>1, <2>2, <2>3 DEF LocksInv
  <1>7. RequestsInv'
    BY <1>1, <1>2, <1>4 DEF RequestsInv
  <1>8. ReadsInv'
    BY <1>1, <1>2, <1>3 DEF ReadsInv
  <1> QED BY <1>6, <1>7, <1>8

-----------------------------------------------------------------------------
(* Asking for locks and taking them                                        *)

LEMMA AskingKeeps ==
    ASSUME SalesInv, NEW s \in Sessions, NEW q \in Request, Start(s, q),
           q.op \in OnSale => sale[q.sale] # NoRow,
           q.op = "sell" =>
              /\ sale[q.sale] = NoRow
              /\ q.credit + q.store <= q.cart.total
              /\ \A r \in Sessions :
                    req[r] # NoRow => ~ (req[r].op = "sell" /\ req[r].sale = q.sale)
    PROVE  SalesInv'
  <1> USE DEF SalesInv
  <1>1. /\ req[s] = NoRow /\ held[s] = {} /\ q # NoRow
        /\ req'[s] = q /\ want'[s] = LocksOf(q)
        /\ \A r \in Sessions \ {s} : req'[r] = req[r] /\ want'[r] = want[r]
        /\ held' = held /\ read' = read /\ sale' = sale /\ account' = account
        /\ collected' = collected
    BY RequestKinds DEF Start, Ask, TypeOK, LocksTypeOK, LocksInv
  <1>2. LocksOf(q) \in Seq(Lockable) /\ RowsIn(LocksOf(q)) = RowsOf(q)
    BY AskedRows
  <1>3. TypeOK'
    <2>1. want' \in [Sessions -> Seq(Lockable)]
      BY <1>2 DEF Start, Ask, TypeOK, LocksTypeOK
    <2>2. req' \in [Sessions -> Request \cup {NoRow}]
      BY DEF Start, TypeOK
    <2> QED BY <1>1, <2>1, <2>2 DEF TypeOK, LocksTypeOK
  <1>4. LocksInv'
    <2>1. ASSUME NEW r \in Sessions, req'[r] # NoRow
          PROVE  held'[r] \cup RowsIn(want'[r]) = RowsOf(req'[r])
      BY <1>1, <1>2, <2>1 DEF LocksInv
    <2>2. \A r \in Sessions : RowsOf(req[r])' = RowsOf(req'[r])
      BY <1>1 DEF RowsOf
    <2> QED BY <1>1, <2>1, <2>2 DEF LocksInv, Exclusive, RowsIn
  <1>5. RequestsInv'
    BY <1>1 DEF RequestsInv
  <1>6. ReadsInv'
    BY <1>1 DEF ReadsInv
  <1>7. SalesSound' /\ StoreCreditNotOverdrawn'
    BY <1>1 DEF SalesSound, Sound, Existing, StoreCreditNotOverdrawn
  <1> QED BY <1>3, <1>4, <1>5, <1>6, <1>7

LEMMA RequestsStart ==
    ASSUME SalesInv, NEW s \in Sessions, StartRequest(s)
    PROVE  SalesInv'
  <1>1. CASE StartSell(s)
    <2>1. PICK x \in Sales, c \in Customers, k \in Carts :
            /\ sale[x] = NoRow
            /\ \A r \in Sessions : req[r] # NoRow => ~ (req[r].op = "sell" /\ req[r].sale = x)
            /\ \E credit \in 0 .. k.total : \E store \in 0 .. (k.total - credit) :
                  Start(s, [op |-> "sell", sale |-> x, customer |-> c, cart |-> k,
                            credit |-> credit, store |-> store])
      BY <1>1 DEF StartSell
    <2>a. PICK credit \in 0 .. k.total : \E store \in 0 .. (k.total - credit) :
            Start(s, [op |-> "sell", sale |-> x, customer |-> c, cart |-> k,
                      credit |-> credit, store |-> store])
      BY <2>1
    <2>2. PICK store \in 0 .. (k.total - credit) :
            Start(s, [op |-> "sell", sale |-> x, customer |-> c, cart |-> k,
                      credit |-> credit, store |-> store])
      BY <2>a
    <2> DEFINE q == [op |-> "sell", sale |-> x, customer |-> c, cart |-> k,
                     credit |-> credit, store |-> store]
    <2>3. k.total \in Nat /\ credit \in Nat /\ store \in Nat /\ credit + store <= k.total
      BY SalesConstants DEF Cart
    <2>4. q \in Request /\ q.op \notin OnSale
      BY <2>3 DEF Request, SellRequest, OnSale
    <2> QED BY <2>1, <2>2, <2>3, <2>4, AskingKeeps
  <1>2. CASE StartPay(s)
    <2>1. PICK x \in Sales, a \in Amounts :
            sale[x] # NoRow /\ Start(s, [op |-> "pay", sale |-> x, amount |-> a])
      BY <1>2 DEF StartPay
    <2>2. [op |-> "pay", sale |-> x, amount |-> a] \in Request
      BY SalesConstants DEF Request, PayRequest
    <2> QED BY <2>1, <2>2, AskingKeeps
  <1>3. CASE StartVoid(s)
    <2>1. PICK x \in Sales : sale[x] # NoRow /\ Start(s, [op |-> "void", sale |-> x])
      BY <1>3 DEF StartVoid
    <2>2. [op |-> "void", sale |-> x] \in Request
      BY DEF Request, VoidRequest
    <2> QED BY <2>1, <2>2, AskingKeeps
  <1>4. CASE StartReturn(s)
    <2>1. PICK x \in Sales, m \in Refunds, restock \in BOOLEAN :
            /\ sale[x] # NoRow
            /\ \E n \in 1 .. sale[x].qty :
                  Start(s, [op |-> "return", sale |-> x, qty |-> n, method |-> m,
                            restock |-> restock])
      BY <1>4 DEF StartReturn
    <2>2. PICK n \in 1 .. sale[x].qty :
            Start(s, [op |-> "return", sale |-> x, qty |-> n, method |-> m,
                      restock |-> restock])
      BY <2>1
    <2>3. sale[x].qty \in Nat /\ n \in Nat /\ m \in Methods
      BY <2>1, SalesConstants DEF SalesInv, TypeOK, Sale, Methods
    <2>4. [op |-> "return", sale |-> x, qty |-> n, method |-> m,
           restock |-> restock] \in Request
      BY <2>3 DEF Request, ReturnRequest
    <2> QED BY <2>1, <2>2, <2>4, AskingKeeps
  <1>5. CASE StartCollect(s)
    <2>1. PICK c \in Customers, a \in Amounts :
            Start(s, [op |-> "collect", customer |-> c, amount |-> a])
      BY <1>5 DEF StartCollect
    <2>2. [op |-> "collect", customer |-> c, amount |-> a] \in Request
      BY SalesConstants DEF Request, CollectRequest
    <2> QED BY <2>1, <2>2, AskingKeeps DEF OnSale
  <1> QED BY <1>1, <1>2, <1>3, <1>4, <1>5 DEF StartRequest

LEMMA LockingKeeps ==
    ASSUME SalesInv, NEW s \in Sessions, Lock(s)
    PROVE  SalesInv'
  <1> USE DEF SalesInv
  <1> DEFINE row == Head(want[s])
  <1>1. /\ want[s] # <<>> /\ req[s] # NoRow
        /\ \A r \in Sessions \ {s} : row \notin held[r]
    BY DEF Lock, Take, Granted, LocksInv
  <1>2. /\ row \in Lockable /\ Tail(want[s]) \in Seq(Lockable)
        /\ RowsIn(want[s]) = {row} \cup RowsIn(Tail(want[s]))
    BY <1>1, FirstRow DEF TypeOK, LocksTypeOK
  <1>3. /\ want'[s] = Tail(want[s]) /\ held'[s] = held[s] \cup {row}
        /\ read'[s] = [sale |-> IF row \in Sales THEN sale[row] ELSE read[s].sale,
                       account |-> IF row \in Customers THEN account[row]
                                   ELSE read[s].account]
        /\ \A r \in Sessions \ {s} :
              want'[r] = want[r] /\ held'[r] = held[r] /\ read'[r] = read[r]
        /\ sale' = sale /\ account' = account /\ collected' = collected /\ req' = req
    BY DEF Lock, Take, TypeOK, LocksTypeOK
  <1>4. row \in RowsOf(req[s])
    BY <1>1, <1>2 DEF LocksInv
  <1>5. TypeOK'
    <2>1. want' \in [Sessions -> Seq(Lockable)] /\ held' \in [Sessions -> SUBSET Lockable]
      BY <1>2 DEF Lock, Take, TypeOK, LocksTypeOK
    <2>2. read' \in [Sessions -> [sale : Sale \cup {NoRow}, account : Account \cup {NoRow}]]
      BY <1>3 DEF Lock, TypeOK
    <2> QED BY <1>3, <2>1, <2>2 DEF TypeOK, LocksTypeOK
  <1>6. LocksInv'
    <2>1. Exclusive'
      BY <1>1, <1>3 DEF LocksInv, Exclusive
    <2>2. \A r \in Sessions : req'[r] = NoRow => held'[r] = {} /\ want'[r] = <<>>
      BY <1>1, <1>3 DEF LocksInv
    <2>3. ASSUME NEW r \in Sessions, req[r] # NoRow
          PROVE  held'[r] \cup RowsIn(want'[r]) = RowsOf(req[r])
      BY <1>2, <1>3, <2>3 DEF LocksInv
    <2>4. \A r \in Sessions : RowsOf(req[r])' = RowsOf(req[r])
      BY <1>3 DEF RowsOf
    <2> QED BY <1>3, <2>1, <2>2, <2>3, <2>4 DEF LocksInv, RowsIn
  <1>7. RequestsInv'
    BY <1>3 DEF RequestsInv
  <1>8. ReadsInv'
    <2>1. req[s] \in Request
      BY <1>1 DEF TypeOK
    <2>2. req[s].op \in OnSale => req[s].sale \in Sales /\ sale[req[s].sale].customer \in Customers
      BY <1>1, <2>1, RequestKinds DEF TypeOK, RequestsInv, Sale
    <2>3. req[s].op \in OnAccount => req[s].customer \in Customers
      BY <2>1, RequestKinds
    <2>4. req[s].op \in OnSale /\ row \in Sales => row = req[s].sale
      BY <1>4, <2>2, SalesConstants DEF RowsOf, OnSale, OnAccount
    <2>5. req[s].op \in OnAccount /\ row \in Customers => row = req[s].customer
      BY <1>4, <2>3, SalesConstants DEF RowsOf, OnSale, OnAccount
    <2>6. req[s].op \in OnSale /\ req[s].sale \in held'[s] =>
             read'[s].sale = sale[req[s].sale]
      BY <1>1, <1>3, <2>2, <2>4 DEF ReadsInv
    <2>7. req[s].op \in OnAccount /\ req[s].customer \in held'[s] =>
             read'[s].account = account[req[s].customer]
      BY <1>1, <1>3, <2>3, <2>5 DEF ReadsInv
    <2> QED BY <1>3, <2>6, <2>7 DEF ReadsInv
  <1>9. SalesSound' /\ StoreCreditNotOverdrawn'
    BY <1>3 DEF SalesSound, Sound, Existing, StoreCreditNotOverdrawn
  <1> QED BY <1>5, <1>6, <1>7, <1>8, <1>9

-----------------------------------------------------------------------------
(* Deciding and writing                                                    *)

\* Once a request has all its locks, what it read is what the rows say.
LEMMA ReadyReadsTheRows ==
    ASSUME SalesInv, NEW s \in Sessions, Ready(s)
    PROVE  /\ req[s] \in Request /\ req[s] # NoRow
           /\ req[s].op \in OnSale =>
                 /\ req[s].sale \in Sales /\ sale[req[s].sale] \in Sale
                 /\ sale[req[s].sale] # NoRow
                 /\ read[s].sale = sale[req[s].sale]
                 /\ req[s].sale \in held[s] /\ sale[req[s].sale].customer \in held[s]
           /\ req[s].op \in OnAccount =>
                 /\ req[s].customer \in Customers
                 /\ read[s].account = account[req[s].customer]
                 /\ req[s].customer \in held[s]
  <1> USE DEF SalesInv
  <1>1. req[s] \in Request /\ req[s] # NoRow /\ want[s] = <<>>
    BY DEF Ready, TypeOK
  <1>2. held[s] = RowsOf(req[s])
    <2>1. RowsIn(want[s]) = {}
      BY <1>1 DEF RowsIn
    <2> QED BY <1>1, <2>1 DEF LocksInv
  <1>3. ASSUME req[s].op \in OnSale
        PROVE  /\ req[s].sale \in Sales /\ sale[req[s].sale] \in Sale
               /\ sale[req[s].sale] # NoRow
               /\ req[s].sale \in held[s] /\ sale[req[s].sale].customer \in held[s]
    <2>1. req[s].sale \in Sales
      BY <1>1, <1>3, RequestKinds
    <2>2. sale[req[s].sale] # NoRow
      BY <1>1, <1>3 DEF RequestsInv
    <2>3. sale[req[s].sale] \in Sale
      BY <2>1, <2>2 DEF TypeOK
    <2> QED BY <1>2, <1>3, <2>1, <2>2, <2>3 DEF RowsOf, OnSale, OnAccount
  <1>4. ASSUME req[s].op \in OnAccount
        PROVE  req[s].customer \in Customers /\ req[s].customer \in held[s]
    BY <1>1, <1>2, <1>4, RequestKinds DEF RowsOf
  <1> QED BY <1>1, <1>3, <1>4 DEF ReadsInv

LEMMA RoundingIsNatural ==
    ASSUME NEW n \in Nat, NEW d \in Nat \ {0}
    PROVE  RoundHalfUp(n, d) \in Nat
  BY DEF RoundHalfUp

LEMMA RefundsAddUp ==
    ASSUME NEW r \in Nat, NEW m \in Nat, NEW n \in Nat
    PROVE  r * m + r * n = r * (m + n) /\ r * n \in Nat
  OBVIOUS

\* What the accepted request of s leaves behind: still typed, still sound, and
\* touching only what s has locked.
Fits(s) ==
    /\ sale' \in [Sales -> Sale \cup {NoRow}]
    /\ account' \in [Customers -> Account]
    /\ collected' \in [Customers -> Nat]
    /\ \A x \in Sales : SaleKept(s, x)
    /\ \A c \in Customers : AccountKept(s, c)
    /\ \A x \in Sales : sale'[x] # NoRow => Sound(sale'[x])
    /\ \A c \in Customers : account'[c].store >= 0

LEMMA ShiftFits ==
    ASSUME SalesInv, NEW s \in Sessions, NEW c \in Customers, c \in held[s],
           NEW owed \in Int, NEW store \in Int, account[c].store + store >= 0,
           account' = Shift(c, owed, store)
    PROVE  /\ account' \in [Customers -> Account]
           /\ \A d \in Customers : AccountKept(s, d)
           /\ \A d \in Customers : account'[d].store >= 0
  <1>1. account \in [Customers -> Account] /\ \A d \in Customers : account[d].store >= 0
    BY DEF SalesInv, TypeOK, StoreCreditNotOverdrawn
  <1>2. account'[c] = [account[c] EXCEPT !.owed = @ + owed, !.store = @ + store]
    BY <1>1 DEF Shift, Account
  <1>3. \A d \in Customers \ {c} : account'[d] = account[d]
    BY <1>1 DEF Shift, Account
  <1>4. account'[c] \in Account /\ account'[c].store = account[c].store + store
    <2>1. account[c] \in Account /\ account[c].owed \in Int /\ account[c].store \in Int
      BY <1>1 DEF Account
    <2>2. account'[c] = [owed |-> account[c].owed + owed, store |-> account[c].store + store]
      BY <1>2, <2>1 DEF Account
    <2>3. account[c].owed + owed \in Int /\ account[c].store + store \in Int
      BY <2>1
    <2> QED BY <2>2, <2>3 DEF Account
  <1>5. DOMAIN account' = Customers /\ account' = [d \in Customers |-> account'[d]]
    BY <1>1 DEF Shift
  <1> QED BY <1>1, <1>3, <1>4, <1>5 DEF AccountKept

LEMMA SaleFits ==
    ASSUME SalesInv, NEW s \in Sessions, NEW x \in Sales, NEW new \in Sale,
           sale' = [sale EXCEPT ![x] = new], Sound(new),
           \/ /\ x \in held[s] /\ sale[x] # NoRow
              /\ new.customer = sale[x].customer
           \/ req[s].op = "sell" /\ req[s].sale = x
    PROVE  /\ sale' \in [Sales -> Sale \cup {NoRow}]
           /\ \A y \in Sales : SaleKept(s, y)
           /\ \A y \in Sales : sale'[y] # NoRow => Sound(sale'[y])
  <1>1. sale \in [Sales -> Sale \cup {NoRow}] /\ new # NoRow
    BY NoRowIsEmpty DEF SalesInv, TypeOK
  <1>2. sale'[x] = new /\ \A y \in Sales \ {x} : sale'[y] = sale[y]
    BY <1>1
  <1>3. \A y \in Sales : SaleKept(s, y)
    BY <1>1, <1>2 DEF SaleKept
  <1>4. \A y \in Sales : sale'[y] # NoRow => Sound(sale'[y])
    BY <1>2 DEF SalesInv, SalesSound, Existing
  <1> QED BY <1>1, <1>3, <1>4

LEMMA SellFits ==
    ASSUME SalesInv, NEW s \in Sessions, Ready(s), Accepted(s), Sell(s)
    PROVE  Fits(s)
  <1> DEFINE q == req[s]
             new == [customer |-> q.customer, qty |-> q.cart.qty, total |-> q.cart.total,
                     paid |-> q.cart.total - q.credit, status |-> SoldStatus(q),
                     returned |-> 0, money |-> 0, toStore |-> 0, toAccount |-> 0,
                     restored |-> 0, credit |-> q.credit, store |-> q.store, later |-> 0,
                     applied |-> 0]
  <1>1. /\ q.op = "sell" /\ q \in SellRequest
        /\ read[s].account = account[q.customer] /\ q.customer \in held[s]
        /\ q.credit + q.store <= q.cart.total
    BY ReadyReadsTheRows, RequestKinds DEF Sell, SalesInv, RequestsInv, OnAccount
  <1>2. /\ q.sale \in Sales /\ q.customer \in Customers
        /\ q.cart.qty \in Nat \ {0} /\ q.cart.total \in Nat
        /\ q.credit \in Nat /\ q.store \in Nat
    BY <1>1, SalesConstants DEF SellRequest, Cart
  <1>3. q.store <= account[q.customer].store
    BY <1>1 DEF Accepted, CanSell
  <1>4. SoldStatus(q) \in Statuses \ {"voided"}
    BY DEF SoldStatus, Statuses
  <1>5. new \in Sale
    <2>1. q.cart.total - q.credit \in Nat
      BY <1>1, <1>2
    <2> QED BY <1>2, <1>4, <2>1 DEF Sale
  <1>6. Sound(new)
    <2>1. RoundHalfUp(q.cart.total, q.cart.qty) \in Nat
      BY <1>2, RoundingIsNatural
    <2>2. RoundHalfUp(q.cart.total, q.cart.qty) * 0 = 0
      BY <2>1
    <2> QED BY <1>1, <1>2, <1>4, <2>2 DEF Sound
  <1>7. sale' = [sale EXCEPT ![q.sale] = new]
    BY DEF Sell
  <1>8. account' = Shift(q.customer, q.credit, - q.store)
    BY DEF Sell
  <1>9. - q.store \in Int /\ account[q.customer].store + (- q.store) >= 0
    BY <1>2, <1>3 DEF SalesInv, TypeOK, Account
  <1>10. collected' \in [Customers -> Nat]
    BY DEF Sell, SalesInv, TypeOK
  <1>11. /\ sale' \in [Sales -> Sale \cup {NoRow}]
         /\ \A y \in Sales : SaleKept(s, y)
         /\ \A y \in Sales : sale'[y] # NoRow => Sound(sale'[y])
    BY <1>1, <1>2, <1>5, <1>6, <1>7, SaleFits
  <1>12. /\ account' \in [Customers -> Account]
         /\ \A d \in Customers : AccountKept(s, d)
         /\ \A d \in Customers : account'[d].store >= 0
    BY <1>1, <1>2, <1>8, <1>9, ShiftFits
  <1> QED BY <1>10, <1>11, <1>12 DEF Fits

\* The sale that an accepted request is about, its types and its soundness.
LEMMA SaleOfRequest ==
    ASSUME SalesInv, NEW s \in Sessions, Ready(s), req[s].op \in OnSale
    PROVE  LET x == read[s].sale
           IN  /\ req[s].sale \in Sales /\ req[s].sale \in held[s]
               /\ sale[req[s].sale] = x /\ x # NoRow
               /\ x \in Sale /\ Sound(x)
               /\ x.customer \in Customers /\ x.customer \in held[s]
               /\ x.status \in Statuses
               /\ x.qty \in Nat \ {0} /\ x.total \in Nat /\ x.paid \in Nat /\ x.returned \in Nat
               /\ x.money \in Nat /\ x.toStore \in Nat /\ x.toAccount \in Nat
               /\ x.restored \in Nat /\ x.store \in Nat /\ x.later \in Nat
               /\ x.applied \in Nat /\ x.credit \in Nat
               /\ account[x.customer].owed \in Int /\ account[x.customer].store \in Nat
  <1>1. /\ req[s].sale \in Sales /\ req[s].sale \in held[s]
        /\ sale[req[s].sale] = read[s].sale /\ read[s].sale # NoRow
        /\ read[s].sale \in Sale /\ read[s].sale.customer \in held[s]
    BY ReadyReadsTheRows
  <1>2. Sound(read[s].sale)
    BY <1>1 DEF SalesInv, SalesSound, Existing
  <1>3. read[s].sale.customer \in Customers
    BY <1>1 DEF Sale
  <1>4. \A c \in Customers : account[c].owed \in Int /\ account[c].store \in Nat
    BY DEF SalesInv, TypeOK, Account, StoreCreditNotOverdrawn
  <1> QED BY <1>1, <1>2, <1>3, <1>4 DEF Sale

\* A sale that is written back with some columns changed.
PaidSale(x, paid, later, status) ==
    [x EXCEPT !.paid = paid, !.later = later, !.status = status]
VoidedSale(x, restored) == [x EXCEPT !.status = "voided", !.restored = restored]

LEMMA PaidSaleColumns ==
    ASSUME NEW x \in Sale, NEW paid \in Nat, NEW later \in Nat, NEW status \in Statuses
    PROVE  LET new == PaidSale(x, paid, later, status) IN
           /\ new \in Sale
           /\ new.paid = paid /\ new.status = status
           /\ new.customer = x.customer /\ new.total = x.total /\ new.qty = x.qty
           /\ new.returned = x.returned /\ new.restored = x.restored
           /\ new.credit = x.credit /\ new.later = later /\ new.applied = x.applied
           /\ new.money = x.money /\ new.toStore = x.toStore /\ new.toAccount = x.toAccount
  BY DEF Sale, PaidSale

LEMMA VoidedSaleColumns ==
    ASSUME NEW x \in Sale, NEW restored \in Nat
    PROVE  LET new == VoidedSale(x, restored) IN
           /\ new \in Sale
           /\ new.status = "voided" /\ new.restored = restored
           /\ new.customer = x.customer /\ new.total = x.total /\ new.qty = x.qty
           /\ new.paid = x.paid /\ new.returned = x.returned
           /\ new.credit = x.credit /\ new.later = x.later /\ new.applied = x.applied
           /\ new.money = x.money /\ new.toStore = x.toStore /\ new.toAccount = x.toAccount
  BY DEF Sale, Statuses, VoidedSale

LEMMA PayFits ==
    ASSUME SalesInv, NEW s \in Sessions, Ready(s), Accepted(s), Pay(s)
    PROVE  Fits(s)
  <1> DEFINE q == req[s]
             x == read[s].sale
             status == IF x.status \notin {"credit", "partial"} THEN x.status
                       ELSE IF Balance(x) <= q.amount THEN "completed" ELSE "partial"
             new == PaidSale(x, x.paid + q.amount, x.later + q.amount, status)
  <1>1. q.op = "pay" /\ q.op \in OnSale
    BY DEF Pay, OnSale
  <1>2. q.amount \in Nat
    BY <1>1, ReadyReadsTheRows, RequestKinds DEF PayRequest
  <1>3. x.status # "voided" /\ q.amount <= Balance(x)
    BY <1>1 DEF Accepted, CanPay
  <1>4. x.paid + q.amount <= x.total
    BY <1>1, <1>2, <1>3, SaleOfRequest DEF Balance
  <1>5. status \in Statuses \ {"voided"}
    BY <1>1, <1>3, SaleOfRequest DEF Statuses
  <1>6. x \in Sale /\ Sound(x) /\ x.paid \in Nat /\ x.later \in Nat
    BY <1>1, SaleOfRequest
  <1>7. /\ x.paid + q.amount \in Nat /\ x.later + q.amount \in Nat
        /\ status \in Statuses /\ x \in Sale
    BY <1>2, <1>5, <1>6
  <1> HIDE DEF status
  <1>8. /\ new \in Sale
        /\ new.status = status /\ new.paid = x.paid + q.amount /\ new.customer = x.customer
        /\ new.total = x.total /\ new.qty = x.qty /\ new.returned = x.returned
        /\ new.restored = x.restored /\ new.credit = x.credit /\ new.money = x.money
        /\ new.toStore = x.toStore /\ new.toAccount = x.toAccount
    BY <1>7, PaidSaleColumns
  <1> HIDE DEF new
  <1>9. Sound(new)
    BY <1>3, <1>4, <1>5, <1>6, <1>8 DEF Sound
  <1>10. sale' = [sale EXCEPT ![q.sale] = new]
    BY DEF Pay, PaidSale, new, status
  <1>11. account' = Shift(x.customer, - q.amount, 0) /\ collected' = collected
    BY DEF Pay
  <1>12. /\ sale' \in [Sales -> Sale \cup {NoRow}]
         /\ \A y \in Sales : SaleKept(s, y)
         /\ \A y \in Sales : sale'[y] # NoRow => Sound(sale'[y])
    BY <1>1, <1>8, <1>9, <1>10, SaleOfRequest, SaleFits
  <1>13. - q.amount \in Int /\ account[x.customer].store + 0 >= 0
    BY <1>1, <1>2, SaleOfRequest
  <1>14. /\ account' \in [Customers -> Account]
         /\ \A d \in Customers : AccountKept(s, d)
         /\ \A d \in Customers : account'[d].store >= 0
    BY <1>1, <1>11, <1>13, SaleOfRequest, ShiftFits
  <1> QED BY <1>11, <1>12, <1>14 DEF Fits, SalesInv, TypeOK

LEMMA VoidFits ==
    ASSUME SalesInv, NEW s \in Sessions, Ready(s), Accepted(s), Void(s)
    PROVE  Fits(s)
  <1> DEFINE q == req[s]
             x == read[s].sale
             new == VoidedSale(x, x.restored + x.qty)
  <1>1. q.op = "void" /\ q.op \in OnSale
    BY DEF Void, OnSale
  <1>2. x.status # "voided" /\ x.returned = 0
    BY <1>1 DEF Accepted, CanVoid
  <1>3. /\ x \in Sale /\ Sound(x) /\ x.qty \in Nat /\ x.restored \in Nat
        /\ x.total \in Nat /\ x.paid \in Nat /\ x.store \in Nat
    BY <1>1, SaleOfRequest
  <1>4. x.restored + x.qty \in Nat
    BY <1>3
  <1>5. /\ new \in Sale
        /\ new.status = "voided" /\ new.restored = x.restored + x.qty
        /\ new.customer = x.customer /\ new.paid = x.paid
        /\ new.total = x.total /\ new.qty = x.qty /\ new.returned = x.returned
        /\ new.credit = x.credit /\ new.money = x.money
        /\ new.toStore = x.toStore /\ new.toAccount = x.toAccount
    BY <1>3, <1>4, VoidedSaleColumns, ZenonT(40)
  <1> HIDE DEF new
  <1>6. Sound(new)
    BY <1>2, <1>3, <1>5 DEF Sound
  <1>7. sale' = [sale EXCEPT ![q.sale] = new]
    BY DEF Void, VoidedSale, new
  <1>8. /\ account' = Shift(x.customer, - Positive(CreditPaid(x)), x.store)
        /\ collected' = collected
    BY DEF Void
  <1>9. /\ sale' \in [Sales -> Sale \cup {NoRow}]
        /\ \A y \in Sales : SaleKept(s, y)
        /\ \A y \in Sales : sale'[y] # NoRow => Sound(sale'[y])
    BY <1>1, <1>5, <1>6, <1>7, SaleOfRequest, SaleFits
  <1>10. /\ - Positive(CreditPaid(x)) \in Int /\ x.store \in Int
         /\ account[x.customer].store + x.store >= 0
    BY <1>1, <1>3, SaleOfRequest DEF Positive, CreditPaid
  <1>11. /\ account' \in [Customers -> Account]
         /\ \A d \in Customers : AccountKept(s, d)
         /\ \A d \in Customers : account'[d].store >= 0
    BY <1>1, <1>8, <1>10, SaleOfRequest, ShiftFits
  <1> QED BY <1>8, <1>9, <1>11 DEF Fits, SalesInv, TypeOK

ReturnedSale(x, returned, restored, money, toStore, toAccount, applied, status) ==
    [x EXCEPT !.returned = returned, !.restored = restored, !.money = money,
              !.toStore = toStore, !.toAccount = toAccount, !.applied = applied,
              !.status = status]

LEMMA ReturnFits ==
    ASSUME SalesInv, NEW s \in Sessions, Ready(s), Accepted(s), Return(s)
    PROVE  Fits(s)
  <1> DEFINE q == req[s]
             x == read[s].sale
             refund == Refund(x, q.qty)
             applied == IF q.method = "account"
                        THEN Applied(account[x.customer].owed, refund) ELSE 0
             restored == IF q.restock THEN x.restored + q.qty ELSE x.restored
             money == IF q.method = "money" THEN x.money + refund ELSE x.money
             toStore == IF q.method = "store" THEN x.toStore + refund ELSE x.toStore
             toAccount == IF q.method = "account" THEN x.toAccount + refund ELSE x.toAccount
             status == IF x.returned + q.qty >= x.qty THEN "returned" ELSE "part_returned"
             returned == x.returned + q.qty
             credited == x.applied + Positive(applied)
             new == ReturnedSale(x, returned, restored, money, toStore, toAccount,
                                 credited, status)
             store == CASE q.method = "money" -> 0
                        [] q.method = "store" -> refund
                        [] q.method = "account" -> Positive(refund - applied)
  <1>1. q.op = "return" /\ q.op \in OnSale
    BY DEF Return, OnSale
  <1>2. q.qty \in Nat /\ q.method \in {"money", "store", "account"} /\ q.restock \in BOOLEAN
    BY <1>1, ReadyReadsTheRows, RequestKinds DEF ReturnRequest, Methods
  <1>3. x.status # "voided" /\ q.qty <= x.qty - x.returned /\ refund > 0
    BY <1>1 DEF Accepted, CanReturn
  <1>4. /\ x \in Sale /\ Sound(x) /\ x.qty \in Nat \ {0} /\ x.total \in Nat /\ x.returned \in Nat
        /\ x.restored \in Nat /\ x.money \in Nat /\ x.toStore \in Nat /\ x.toAccount \in Nat
        /\ x.applied \in Nat /\ account[x.customer].owed \in Int
        /\ account[x.customer].store \in Nat
    BY <1>1, SaleOfRequest
  <1>5. /\ refund \in Nat
        /\ refund + RoundHalfUp(x.total, x.qty) * x.returned
             = RoundHalfUp(x.total, x.qty) * (x.returned + q.qty)
    <2>1. RoundHalfUp(x.total, x.qty) \in Nat
      BY <1>4, RoundingIsNatural
    <2> QED BY <1>2, <1>4, <2>1, RefundsAddUp DEF Refund
  <1> HIDE DEF refund
  <1>6. applied \in Int /\ Positive(applied) \in Nat /\ applied <= refund
    BY <1>4, <1>5 DEF Applied, Least, Positive
  <1>7. /\ status \in Statuses \ {"voided"}
        /\ x.returned + q.qty \in Nat /\ x.returned + q.qty <= x.qty
        /\ restored \in Nat /\ restored <= x.returned + q.qty
    BY <1>2, <1>3, <1>4 DEF Sound, Statuses
  <1>8. /\ money \in Nat /\ toStore \in Nat /\ toAccount \in Nat
        /\ money + toStore + toAccount = x.money + x.toStore + x.toAccount + refund
    BY <1>2, <1>4, <1>5
  <1>9. /\ x \in Sale /\ returned \in Nat /\ restored \in Nat
        /\ money \in Nat /\ toStore \in Nat /\ toAccount \in Nat
        /\ credited \in Nat /\ status \in Statuses
    BY <1>4, <1>6, <1>7, <1>8
  <1>10. store \in Nat
    BY <1>2, <1>5, <1>6 DEF Positive
  <1> HIDE DEF applied, returned, credited, restored, money, toStore, toAccount, status, store
  <1>11. /\ new \in Sale
         /\ new.returned = returned /\ new.restored = restored
         /\ new.money = money /\ new.toStore = toStore /\ new.toAccount = toAccount
         /\ new.status = status
         /\ new.customer = x.customer /\ new.total = x.total /\ new.qty = x.qty
         /\ new.paid = x.paid /\ new.credit = x.credit
    BY <1>9 DEF Sale, ReturnedSale
  <1> HIDE DEF new
  <1>12. Sound(new)
    <2>1. money + toStore + toAccount
            = RoundHalfUp(x.total, x.qty) * x.returned + refund
      BY <1>4, <1>8 DEF Sound
    <2>2. RoundHalfUp(x.total, x.qty) * x.returned \in Nat
      BY <1>4, RoundingIsNatural, RefundsAddUp
    <2>3. money + toStore + toAccount = RoundHalfUp(x.total, x.qty) * (x.returned + q.qty)
      BY <1>5, <2>1, <2>2
    <2> QED BY <1>4, <1>7, <1>11, <2>3 DEF Sound, returned
  <1>13. sale' = [sale EXCEPT ![q.sale] = new]
    BY DEF Return, ReturnedSale, new, refund, applied, returned, credited, restored, money,
           toStore, toAccount, status
  <1>14. /\ account' = Shift(x.customer, - Positive(applied), store)
         /\ collected' = collected
    BY DEF Return, refund, applied, store
  <1>15. /\ sale' \in [Sales -> Sale \cup {NoRow}]
         /\ \A y \in Sales : SaleKept(s, y)
         /\ \A y \in Sales : sale'[y] # NoRow => Sound(sale'[y])
    BY <1>1, <1>11, <1>12, <1>13, SaleOfRequest, SaleFits
  <1>16. /\ - Positive(applied) \in Int /\ store \in Int
         /\ account[x.customer].store + store >= 0
    BY <1>4, <1>6, <1>10
  <1>17. /\ account' \in [Customers -> Account]
         /\ \A d \in Customers : AccountKept(s, d)
         /\ \A d \in Customers : account'[d].store >= 0
    BY <1>1, <1>14, <1>16, SaleOfRequest, ShiftFits
  <1> QED BY <1>14, <1>15, <1>17 DEF Fits, SalesInv, TypeOK

LEMMA CollectFits ==
    ASSUME SalesInv, NEW s \in Sessions, Ready(s), Accepted(s), Collect(s)
    PROVE  Fits(s)
  <1> DEFINE q == req[s]
             c == q.customer
             left == read[s].account.owed - q.amount
  <1>1. q.op = "collect" /\ q.op \in OnAccount
    BY DEF Collect, OnAccount
  <1>2. /\ c \in Customers /\ c \in held[s] /\ q.amount \in Nat
        /\ read[s].account = account[c]
    BY <1>1, ReadyReadsTheRows, RequestKinds DEF CollectRequest
  <1>3. account \in [Customers -> Account] /\ \A d \in Customers : account[d].store >= 0
    BY DEF SalesInv, TypeOK, StoreCreditNotOverdrawn
  <1>4. account[c] \in Account /\ account[c].owed \in Int /\ left \in Int
    BY <1>2, <1>3 DEF Account
  <1>5. account' = [account EXCEPT ![c] = [account[c] EXCEPT !.owed = left]]
    BY <1>2, <1>3 DEF Collect
  <1> HIDE DEF left
  <1>6. /\ [account[c] EXCEPT !.owed = left] \in Account
        /\ [account[c] EXCEPT !.owed = left].store = account[c].store
    BY <1>4 DEF Account
  <1> HIDE DEF q, c
  <1>7. /\ account' \in [Customers -> Account]
        /\ \A d \in Customers : account'[d].store >= 0
        /\ \A d \in Customers \ {c} : account'[d] = account[d]
    BY <1>2, <1>3, <1>5, <1>6
  <1>8. \A d \in Customers : AccountKept(s, d)
    BY <1>2, <1>7 DEF AccountKept
  <1>9. collected' = [collected EXCEPT ![c] = @ + q.amount] /\ sale' = sale
    BY DEF Collect, q, c
  <1>10. collected' \in [Customers -> Nat]
    BY <1>2, <1>9 DEF SalesInv, TypeOK
  <1>11. /\ sale' \in [Sales -> Sale \cup {NoRow}]
         /\ \A y \in Sales : SaleKept(s, y)
         /\ \A y \in Sales : sale'[y] # NoRow => Sound(sale'[y])
    BY <1>9 DEF SalesInv, TypeOK, SaleKept, SalesSound, Existing, Sound
  <1> QED BY <1>7, <1>8, <1>10, <1>11 DEF Fits

-----------------------------------------------------------------------------
(* Ending                                                                  *)

LEMMA EndingKeeps ==
    ASSUME SalesInv, NEW s \in Sessions, req[s] # NoRow, Done(s), Fits(s)
    PROVE  SalesInv'
  <1>1. LocksInv' /\ RequestsInv' /\ ReadsInv'
    BY OthersKeepTheirReads DEF SalesInv, Fits
  <1>2. want' \in [Sessions -> Seq(Lockable)]
    <2>1. << >> \in Seq(Lockable)
      OBVIOUS
    <2> QED BY <2>1 DEF Done, Release, SalesInv, TypeOK, LocksTypeOK
  <1>3. held' \in [Sessions -> SUBSET Lockable]
    BY DEF Done, Release, SalesInv, TypeOK, LocksTypeOK
  <1>4. req' \in [Sessions -> Request \cup {NoRow}]
    BY DEF Done, SalesInv, TypeOK
  <1>5. read' \in [Sessions -> [sale : Sale \cup {NoRow}, account : Account \cup {NoRow}]]
    BY DEF Done, Unread, SalesInv, TypeOK
  <1>6. TypeOK'
    BY <1>2, <1>3, <1>4, <1>5 DEF Fits, TypeOK, LocksTypeOK
  <1>7. SalesSound' /\ StoreCreditNotOverdrawn'
    BY DEF Fits, SalesSound, Existing, Sound, StoreCreditNotOverdrawn
  <1> QED BY <1>1, <1>6, <1>7 DEF SalesInv

LEMMA CommitKeeps ==
    ASSUME SalesInv, NEW s \in Sessions, Commit(s)
    PROVE  SalesInv'
  <1>1. Ready(s) /\ Accepted(s) /\ Done(s) /\ req[s] # NoRow
    BY DEF Commit, Ready
  <1>2. CASE Sell(s)    BY <1>1, <1>2, SellFits, EndingKeeps
  <1>3. CASE Pay(s)     BY <1>1, <1>3, PayFits, EndingKeeps
  <1>4. CASE Void(s)    BY <1>1, <1>4, VoidFits, EndingKeeps
  <1>5. CASE Return(s)  BY <1>1, <1>5, ReturnFits, EndingKeeps
  <1>6. CASE Collect(s) BY <1>1, <1>6, CollectFits, EndingKeeps
  <1> QED BY <1>2, <1>3, <1>4, <1>5, <1>6 DEF Commit

LEMMA AbortKeeps ==
    ASSUME SalesInv, NEW s \in Sessions, Abort(s)
    PROVE  SalesInv'
  <1>1. Fits(s)
    BY DEF Abort, Fits, SaleKept, AccountKept, SalesInv, TypeOK, SalesSound, Existing,
           Sound, StoreCreditNotOverdrawn
  <1> QED BY <1>1, EndingKeeps DEF Abort

LEMMA SalesInvStart == Init => SalesInv
  <1> SUFFICES ASSUME Init PROVE SalesInv
    OBVIOUS
  <1> USE DEF Init, InitLocks
  <1>1. TypeOK
    <2>1. << >> \in Seq(Lockable)
      OBVIOUS
    <2>2. want \in [Sessions -> Seq(Lockable)] /\ held \in [Sessions -> SUBSET Lockable]
      BY <2>1
    <2>3. account \in [Customers -> Account]
      BY SalesConstants DEF Account
    <2> QED BY <2>2, <2>3 DEF TypeOK, LocksTypeOK, Unread
  <1>2. LocksInv
    BY DEF LocksInv, Exclusive
  <1>3. RequestsInv /\ ReadsInv /\ SalesSound
    BY DEF RequestsInv, ReadsInv, SalesSound, Existing
  <1>4. StoreCreditNotOverdrawn
    BY SalesConstants DEF StoreCreditNotOverdrawn
  <1> QED BY <1>1, <1>2, <1>3, <1>4 DEF SalesInv

LEMMA SalesInvStep == SalesInv /\ [Next]_vars => SalesInv'
  <1> SUFFICES ASSUME SalesInv, [Next]_vars PROVE SalesInv'
    OBVIOUS
  <1>1. ASSUME NEW s \in Sessions, StartRequest(s) PROVE SalesInv'
    BY <1>1, RequestsStart
  <1>2. ASSUME NEW s \in Sessions, Lock(s) PROVE SalesInv'
    BY <1>2, LockingKeeps
  <1>3. ASSUME NEW s \in Sessions, Commit(s) PROVE SalesInv'
    BY <1>3, CommitKeeps
  <1>4. ASSUME NEW s \in Sessions, Refuse(s) PROVE SalesInv'
    BY <1>4, AbortKeeps DEF Refuse
  <1>5. ASSUME NEW s \in Sessions, DeadlockVictim(s) PROVE SalesInv'
    BY <1>5, AbortKeeps DEF DeadlockVictim
  <1>6. ASSUME NEW s \in Sessions, Crash(s) PROVE SalesInv'
    BY <1>6, AbortKeeps DEF Crash
  <1>7. CASE UNCHANGED vars
    <2> USE <1>7 DEF vars, SalesInv
    <2>1. TypeOK'
      BY DEF TypeOK, LocksTypeOK
    <2>2. LocksInv'
      <3>1. want' = want /\ held' = held /\ req' = req /\ sale' = sale
        OBVIOUS
      <3>2. \A s \in Sessions : /\ RowsOf(req[s])' = RowsOf(req[s])
                                /\ RowsIn(want[s])' = RowsIn(want[s])
        BY <3>1 DEF RowsOf, RowsIn
      <3>3. LocksInv
        OBVIOUS
      <3> QED BY <3>1, <3>2, <3>3 DEF LocksInv, Exclusive
    <2>3. RequestsInv' /\ ReadsInv'
      BY DEF RequestsInv, ReadsInv
    <2>4. SalesSound' /\ StoreCreditNotOverdrawn'
      BY DEF SalesSound, Sound, Existing, StoreCreditNotOverdrawn
    <2> QED BY <2>1, <2>2, <2>3, <2>4
  <1> QED BY <1>1, <1>2, <1>3, <1>4, <1>5, <1>6, <1>7 DEF Next

-----------------------------------------------------------------------------
(* Theorems                                                                *)

\* Locks exclude each other, a sale is made by one request, what a request has
\* read of a locked row still holds, and the columns of every sale fit together,
\* whatever requests run, abort, wait or die (apps/sales/services.py, the write
\* locks of complete_sale, add_sale_payment, void_sale and process_return).
THEOREM SalesInvariant == Spec => []SalesInv
  BY SalesInvStart, SalesInvStep, PTL DEF Spec

\* Every row keeps its type: no count or column of a sale goes below zero.
THEOREM SalesTypeCorrect == Spec => []TypeOK
  <1>1. SalesInv => TypeOK
    BY DEF SalesInv
  <1> QED BY <1>1, SalesInvariant, PTL

\* Goods come back once, for any number of concurrent voids and returns
\* (void_sale and process_return read the sale under its lock).
THEOREM GoodsComeBackOnce == Spec => []GoodsBackOnce
  <1>1. SalesInv => GoodsBackOnce
    <2> SUFFICES ASSUME SalesInv, NEW x \in Existing
                 PROVE  /\ sale[x].restored <= sale[x].qty
                        /\ sale[x].returned <= sale[x].qty
                        /\ sale[x].status = "voided" => sale[x].returned = 0
      BY DEF GoodsBackOnce
    <2> QED BY DEF SalesInv, SalesSound, Sound
  <1> QED BY <1>1, SalesInvariant, PTL

\* However many payments arrive at once, add_sale_payment never takes a sale
\* beyond its total.
THEOREM SaleNeverOverpaid == Spec => []NeverOverpaid
  <1>1. SalesInv => NeverOverpaid
    BY DEF SalesInv, SalesSound, Sound, NeverOverpaid
  <1> QED BY <1>1, SalesInvariant, PTL

\* Store credit is never spent twice, however many tills take it: complete_sale
\* compares it with the locked customer row.
THEOREM StoreCreditSafe == Spec => []StoreCreditNotOverdrawn
  <1>1. SalesInv => StoreCreditNotOverdrawn
    BY DEF SalesInv
  <1> QED BY <1>1, SalesInvariant, PTL

\* ROUND_HALF_UP is off by at most half.
LEMMA RoundedByHalf ==
    ASSUME NEW n \in Nat, NEW d \in Nat \ {0}
    PROVE  LET r == RoundHalfUp(n, d)
           IN  2 * (d * r) <= 2 * n + d /\ 2 * n <= 2 * (d * r) + d
  <1> DEFINE a == 2 * n + d
             b == 2 * d
             r == a \div b
  <1>1. a \in Nat /\ b \in Nat \ {0}
    OBVIOUS
  <1> HIDE DEF a, b
  <1>2. r \in Nat /\ b * r <= a /\ a < b * r + b
    BY <1>1
  <1> HIDE DEF r
  <1>3. b * r = 2 * (d * r)
    BY <1>2 DEF b
  <1>4. d * r \in Nat
    BY <1>2
  <1>5. 2 * (d * r) <= 2 * n + d /\ 2 * n <= 2 * (d * r) + d
    BY <1>2, <1>3, <1>4 DEF a, b
  <1> QED BY <1>5 DEF RoundHalfUp, r, a, b

LEMMA ManyTimes ==
    ASSUME NEW x \in Nat, NEW y \in Nat, NEW d \in Nat, NEW k \in Nat,
           2 * x <= 2 * y + d
    PROVE  2 * (x * k) <= 2 * (y * k) + d * k
  OBVIOUS

\* Whatever a line was returned in, the refunds of process_return are off by at
\* most half a money unit for each unit that came back.
THEOREM RefundsInProportion == Spec => []RefundsProportional
  <1>1. SalesInv => RefundsProportional
    <2> SUFFICES ASSUME SalesInv, NEW y \in Existing
                 PROVE  LET x == sale[y]
                            refunds == x.money + x.toStore + x.toAccount
                        IN  /\ 2 * (x.qty * refunds - x.total * x.returned) <= x.qty * x.returned
                            /\ 2 * (x.total * x.returned - x.qty * refunds) <= x.qty * x.returned
      BY DEF RefundsProportional
    <2> DEFINE x == sale[y]
               q == x.qty
               n == x.total
               k == x.returned
               r == RoundHalfUp(n, q)
    <2>1. q \in Nat \ {0} /\ n \in Nat /\ k \in Nat /\ r \in Nat
      BY RoundingIsNatural DEF SalesInv, TypeOK, Existing, Sale
    <2>2. x.money + x.toStore + x.toAccount = r * k
      BY DEF SalesInv, SalesSound, Sound
    <2>3. 2 * (q * r) <= 2 * n + q /\ 2 * n <= 2 * (q * r) + q
      BY <2>1, RoundedByHalf
    <2> HIDE DEF q, n, k, r
    <2>4. q * r \in Nat /\ n * k \in Nat /\ q * k \in Nat /\ (q * r) * k \in Nat
      BY <2>1
    <2>5. /\ 2 * ((q * r) * k) <= 2 * (n * k) + q * k
          /\ 2 * (n * k) <= 2 * ((q * r) * k) + q * k
      BY <2>1, <2>3, <2>4, ManyTimes
    <2>6. q * (r * k) = (q * r) * k
      BY <2>1
    <2>7. /\ 2 * (q * (r * k) - n * k) <= q * k
          /\ 2 * (n * k - q * (r * k)) <= q * k
      BY <2>4, <2>5, <2>6
    <2> QED BY <2>2, <2>7 DEF q, n, k
  <1> QED BY <1>1, SalesInvariant, PTL

-----------------------------------------------------------------------------
(* The credit limit                                                        *)

Raised(c) == account'[c].owed > account[c].owed
LimitStep == \A c \in Customers :
    Limit[c] > 0 /\ Raised(c)
        => \/ account'[c].owed <= Limit[c]
           \/ \E s \in Approvers : req[s] # NoRow /\ req'[s] = NoRow

LEMMA ShiftedBalance ==
    ASSUME SalesInv, NEW c \in Customers, NEW owed \in Int, NEW store \in Int,
           account' = Shift(c, owed, store)
    PROVE  /\ account'[c].owed = account[c].owed + owed
           /\ \A d \in Customers \ {c} : account'[d] = account[d]
           /\ \A d \in Customers : account[d].owed \in Int
  <1>1. account \in [Customers -> Account]
    BY DEF SalesInv, TypeOK
  <1>2. account'[c] = [account[c] EXCEPT !.owed = @ + owed, !.store = @ + store]
    BY <1>1 DEF Shift, Account
  <1> QED BY <1>1, <1>2 DEF Shift, Account

LEMMA CommitWithinLimit ==
    ASSUME SalesInv, NEW s \in Sessions, Commit(s)
    PROVE  LimitStep
  <1> DEFINE q == req[s]
             x == read[s].sale
  <1>1. Ready(s) /\ Accepted(s) /\ req[s] # NoRow /\ req'[s] = NoRow
    BY DEF Commit, Ready, Done, SalesInv, TypeOK
  <1>2. CASE Sell(s)
    <2>1. /\ q.op = "sell" /\ q \in SellRequest /\ q.customer \in Customers
          /\ read[s].account = account[q.customer]
      BY <1>1, <1>2, ReadyReadsTheRows, RequestKinds DEF Sell, OnAccount
    <2>2. q.credit \in Nat /\ - q.store \in Int
      BY <2>1 DEF SellRequest
    <2>3. q.credit > 0 => \/ Limit[q.customer] = 0
                          \/ account[q.customer].owed + q.credit <= Limit[q.customer]
                          \/ s \in Approvers
      BY <1>1, <2>1 DEF Accepted, CanSell
    <2>4. account' = Shift(q.customer, q.credit, - q.store)
      BY <1>2 DEF Sell
    <2>5. /\ account'[q.customer].owed = account[q.customer].owed + q.credit
          /\ \A d \in Customers \ {q.customer} : account'[d] = account[d]
          /\ \A d \in Customers : account[d].owed \in Int
      BY <2>1, <2>2, <2>4, ShiftedBalance
    <2>6. ASSUME NEW c \in Customers, Limit[c] > 0, Raised(c), s \notin Approvers
          PROVE  account'[c].owed <= Limit[c]
      <3>1. c = q.customer
        BY <2>5, <2>6 DEF Raised
      <3>2. q.credit > 0
        BY <2>2, <2>5, <2>6, <3>1 DEF Raised
      <3> QED BY <2>3, <2>5, <2>6, <3>1, <3>2
    <2> QED BY <1>1, <2>6 DEF LimitStep
  <1>3. ASSUME NEW c \in Customers, NEW owed \in Int, NEW store \in Int, owed <= 0,
               account' = Shift(c, owed, store)
        PROVE  LimitStep
    <2>1. \A d \in Customers : ~ Raised(d)
      BY <1>3, ShiftedBalance DEF Raised
    <2> QED BY <2>1 DEF LimitStep
  <1>4. CASE Pay(s)
    <2>1. q.op \in OnSale /\ q.amount \in Nat
      BY <1>1, <1>4, ReadyReadsTheRows, RequestKinds DEF Pay, OnSale, PayRequest
    <2>2. x.customer \in Customers
      BY <1>1, <2>1, SaleOfRequest
    <2>3. - q.amount \in Int /\ - q.amount <= 0
      BY <2>1
    <2>4. account' = Shift(x.customer, - q.amount, 0)
      BY <1>4 DEF Pay
    <2> QED BY <1>3, <2>2, <2>3, <2>4
  <1>5. CASE Void(s)
    <2>1. q.op \in OnSale
      BY <1>5 DEF Void, OnSale
    <2>2. /\ x.customer \in Customers /\ x.store \in Nat
          /\ x.total \in Nat /\ x.paid \in Nat
      BY <1>1, <2>1, SaleOfRequest
    <2>3. - Positive(CreditPaid(x)) \in Int /\ - Positive(CreditPaid(x)) <= 0
      BY <2>2 DEF Positive, CreditPaid
    <2>4. account' = Shift(x.customer, - Positive(CreditPaid(x)), x.store)
      BY <1>5 DEF Void
    <2> QED BY <1>3, <2>2, <2>3, <2>4
  <1>6. CASE Return(s)
    <2> DEFINE refund == Refund(x, q.qty)
               applied == IF q.method = "account"
                          THEN Applied(account[x.customer].owed, refund) ELSE 0
               store == CASE q.method = "money" -> 0
                          [] q.method = "store" -> refund
                          [] q.method = "account" -> Positive(refund - applied)
    <2>1. /\ q.op \in OnSale /\ q.qty \in Nat /\ q.method \in {"money", "store", "account"}
      BY <1>1, <1>6, ReadyReadsTheRows, RequestKinds DEF Return, OnSale, ReturnRequest, Methods
    <2>2. /\ x.customer \in Customers /\ x.total \in Nat /\ x.qty \in Nat \ {0}
          /\ account[x.customer].owed \in Int
      BY <1>1, <2>1, SaleOfRequest
    <2>3. RoundHalfUp(x.total, x.qty) \in Nat
      BY <2>2, RoundingIsNatural
    <2>4. refund \in Int
      BY <2>1, <2>3 DEF Refund
    <2> HIDE DEF refund
    <2>5. applied \in Int
      BY <2>2, <2>4 DEF Applied, Least
    <2> HIDE DEF applied
    <2>6. - Positive(applied) \in Int /\ - Positive(applied) <= 0 /\ store \in Int
      BY <2>1, <2>4, <2>5 DEF Positive
    <2> HIDE DEF store
    <2>7. account' = Shift(x.customer, - Positive(applied), store)
      BY <1>6 DEF Return, refund, applied, store
    <2> QED BY <1>3, <2>2, <2>6, <2>7
  <1>7. CASE Collect(s)
    <2>1. /\ q.customer \in Customers /\ q.amount \in Nat
          /\ read[s].account = account[q.customer]
      BY <1>1, <1>7, ReadyReadsTheRows, RequestKinds DEF Collect, OnAccount, CollectRequest
    <2>2. account \in [Customers -> Account]
      BY DEF SalesInv, TypeOK
    <2>3. /\ account'[q.customer].owed = account[q.customer].owed - q.amount
          /\ account[q.customer].owed \in Int
          /\ \A d \in Customers \ {q.customer} : account'[d] = account[d]
      BY <1>7, <2>1, <2>2 DEF Collect, Account
    <2>4. \A d \in Customers : account[d].owed \in Int
      BY <2>2 DEF Account
    <2>5. \A d \in Customers : ~ Raised(d)
      BY <2>1, <2>3, <2>4 DEF Raised
    <2> QED BY <2>5 DEF LimitStep
  <1> QED BY <1>2, <1>4, <1>5, <1>6, <1>7 DEF Commit

\* Both bounds of an account, for any requests at once: no store credit is spent
\* twice, and a balance grows beyond the credit limit only by the sale of a user
\* who may approve it (complete_sale compares both with the locked customer row).
THEOREM AccountsStayInBounds == Spec => AccountsInBounds
  <1>1. SalesInv /\ [Next]_vars => [LimitStep]_vars
    <2> SUFFICES ASSUME SalesInv, Next PROVE LimitStep
      OBVIOUS
    <2>1. ASSUME account' = account PROVE LimitStep
      BY <2>1 DEF LimitStep, Raised, SalesInv, TypeOK, Account
    <2>2. ASSUME NEW s \in Sessions, StartRequest(s) PROVE account' = account
      BY <2>2 DEF StartRequest, StartSell, StartPay, StartVoid, StartReturn, StartCollect, Start
    <2>3. ASSUME NEW s \in Sessions, Lock(s) PROVE account' = account
      BY <2>3 DEF Lock
    <2>4. ASSUME NEW s \in Sessions, Refuse(s) \/ DeadlockVictim(s) \/ Crash(s)
          PROVE  account' = account
      BY <2>4 DEF Refuse, DeadlockVictim, Crash, Abort
    <2> QED BY <2>1, <2>2, <2>3, <2>4, CommitWithinLimit DEF Next
  <1>2. SalesInv' => StoreCreditNotOverdrawn'
    BY DEF SalesInv
  <1>3. StoreCreditNotOverdrawn' /\ [LimitStep]_vars =>
           [ /\ StoreCreditNotOverdrawn'
             /\ \A c \in Customers :
                   Limit[c] > 0 /\ account'[c].owed > account[c].owed
                       => \/ account'[c].owed <= Limit[c]
                          \/ \E s \in Approvers : req[s] # NoRow /\ req'[s] = NoRow]_vars
    BY DEF LimitStep, Raised
  <1> QED BY <1>1, <1>2, <1>3, SalesInvariant, PTL DEF Spec, AccountsInBounds

-----------------------------------------------------------------------------
(* The balance of a customer                                               *)

\* What the row of a sale contributes to the balance.
OwingOf(x) == IF x.status = "voided" THEN 0 ELSE x.credit - x.later - x.applied

\* A sale was paid for at the counter, on credit and later; only a return applies
\* a refund to the balance.  So what a void takes back, total - paid, is what the
\* sale still adds to the balance.
Books(x) ==
    /\ x.paid + x.credit = x.total + x.later
    /\ x.returned = 0 => x.applied = 0

BooksInv ==
    /\ IsFiniteSet(Existing)
    /\ \A x \in Existing : Books(sale[x])
    /\ BalanceAddsUp

\* The sum over the sales of a customer as a sum of the values of a function.
LEMMA OwingSum ==
    ASSUME NEW S \in SUBSET Sales, IsFiniteSet(S)
    PROVE  MapThenSumSet(Owing, S) = SumOf([x \in Sales |-> OwingOf(sale[x])], S)
  <1> DEFINE f == [x \in Sales |-> OwingOf(sale[x])]
             Fold(g) == g = [s \in SUBSET S |->
                               IF s = {} THEN 0 ELSE Owing(Pick(s)) + g[s \ {Pick(s)}]]
             h == CHOOSE g : Fold(g)
  <1>1. MapThenSumSet(Owing, S) = h[S]
    BY DEF MapThenSumSet, MapThenFoldSet, Pick
  <1>2. ASSUME NEW s \in SUBSET S, s # {} PROVE f[Pick(s)] = Owing(Pick(s))
    <2>1. Pick(s) \in Sales
      BY <1>2 DEF Pick
    <2> QED BY <2>1 DEF Owing, OwingOf
  <1>3. \A g : Fold(g) <=> IsSum(f, S, g)
    BY <1>2 DEF IsSum
  <1>4. IsSum(f, S, PartialSums(f, S))
    BY SumExists
  <1>5. IsSum(f, S, h)
    BY <1>3, <1>4
  <1> HIDE DEF f, h
  <1>6. h[S] = PartialSums(f, S)[S]
    BY <1>4, <1>5, SumIsUnique
  <1>7. SumOf(f, S) = PartialSums(f, S)[S]
    BY SumIsFold
  <1> QED BY <1>1, <1>6, <1>7 DEF f

LEMMA OwingSumNext ==
    ASSUME NEW S \in SUBSET Sales, IsFiniteSet(S)
    PROVE  MapThenSumSet(Owing, S)' = SumOf([x \in Sales |-> OwingOf(sale'[x])], S)
  <1> DEFINE f == [x \in Sales |-> OwingOf(sale'[x])]
             Fold(g) == g = [s \in SUBSET S |->
                               IF s = {} THEN 0 ELSE Owing(Pick(s))' + g[s \ {Pick(s)}]]
             h == CHOOSE g : Fold(g)
  <1>1. MapThenSumSet(Owing, S)' = h[S]
    BY DEF MapThenSumSet, MapThenFoldSet, Pick
  <1>2. ASSUME NEW s \in SUBSET S, s # {} PROVE f[Pick(s)] = Owing(Pick(s))'
    <2>1. Pick(s) \in Sales
      BY <1>2 DEF Pick
    <2> QED BY <2>1 DEF Owing, OwingOf
  <1>3. \A g : Fold(g) <=> IsSum(f, S, g)
    BY <1>2 DEF IsSum
  <1>4. IsSum(f, S, PartialSums(f, S))
    BY SumExists
  <1>5. IsSum(f, S, h)
    BY <1>3, <1>4
  <1> HIDE DEF f, h
  <1>6. h[S] = PartialSums(f, S)[S]
    BY <1>4, <1>5, SumIsUnique
  <1>7. SumOf(f, S) = PartialSums(f, S)[S]
    BY SumIsFold
  <1> QED BY <1>1, <1>6, <1>7 DEF f


LEMMA OwingIsInteger ==
    ASSUME NEW x \in Sale
    PROVE  OwingOf(x) \in Int
  BY DEF OwingOf, Sale

\* One sale and the balance of its customer change by the same amount.
LEMMA OneSaleChanges ==
    ASSUME SalesInv, BooksInv, NEW x \in Sales, NEW new \in Sale, NEW owed \in Int,
           sale' = [sale EXCEPT ![x] = new], Books(new),
           sale[x] # NoRow => sale[x].customer = new.customer,
           owed = OwingOf(new) - (IF sale[x] = NoRow THEN 0 ELSE OwingOf(sale[x])),
           account'[new.customer].owed = account[new.customer].owed + owed,
           \A d \in Customers \ {new.customer} : account'[d].owed = account[d].owed,
           collected' = collected
    PROVE  BooksInv'
  <1> DEFINE f == [y \in Sales |-> OwingOf(sale[y])]
             g == [y \in Sales |-> OwingOf(sale'[y])]
             c == new.customer
  <1>1. /\ sale \in [Sales -> Sale \cup {NoRow}] /\ new # NoRow /\ c \in Customers
        /\ \A d \in Customers : account[d].owed \in Int /\ collected[d] \in Nat
      BY NoRowIsEmpty DEF SalesInv, TypeOK, Sale, Account
  <1>2. sale'[x] = new /\ \A y \in Sales \ {x} : sale'[y] = sale[y]
    BY <1>1
  <1>3. Existing' = Existing \cup {x} /\ IsFiniteSet(Existing')
    <2>1. Existing' = Existing \cup {x}
      BY <1>1, <1>2 DEF Existing
    <2> QED BY <2>1, FS_AddElement DEF BooksInv
  <1>4. \A y \in Existing' : Books(sale'[y])
    BY <1>2, <1>3 DEF BooksInv, Existing
  <1>5. \A y \in Existing : f[y] \in Int
    BY <1>1, OwingIsInteger DEF Existing
  <1>6. g[x] = OwingOf(new) /\ g[x] \in Int /\ \A y \in Sales \ {x} : g[y] = f[y]
    BY <1>1, <1>2, OwingIsInteger
  <1>7. sale[x] # NoRow => f[x] = OwingOf(sale[x])
    OBVIOUS
  <1>8. ASSUME NEW d \in Customers
        PROVE  /\ SalesOf(d) \in SUBSET Sales /\ IsFiniteSet(SalesOf(d))
               /\ SalesOf(d)' \in SUBSET Sales /\ IsFiniteSet(SalesOf(d)')
               /\ \A y \in SalesOf(d) : f[y] \in Int
               /\ MapThenSumSet(Owing, SalesOf(d)) = SumOf(f, SalesOf(d))
               /\ MapThenSumSet(Owing, SalesOf(d))' = SumOf(g, SalesOf(d)')
    <2>1. SalesOf(d) \subseteq Existing /\ SalesOf(d)' \subseteq Existing'
      BY DEF SalesOf
    <2>2. Existing \subseteq Sales /\ Existing' \subseteq Sales /\ IsFiniteSet(Existing)
      BY DEF Existing, BooksInv
    <2>3. IsFiniteSet(SalesOf(d)) /\ IsFiniteSet(SalesOf(d)')
      BY <1>3, <2>1, <2>2, FS_Subset
    <2> HIDE DEF f, g
    <2>4. MapThenSumSet(Owing, SalesOf(d)) = SumOf(f, SalesOf(d))
      BY <2>1, <2>2, <2>3, OwingSum DEF f
    <2>5. PICK S : S = SalesOf(d)'
      OBVIOUS
    <2>6. MapThenSumSet(Owing, S)' = SumOf(g, S)
      BY <2>1, <2>2, <2>3, <2>5, OwingSumNext DEF g
    <2>7. MapThenSumSet(Owing, SalesOf(d))' = SumOf(g, SalesOf(d)')
      BY <2>5, <2>6 DEF MapThenSumSet, MapThenFoldSet
    <2> QED BY <1>5, <2>1, <2>2, <2>3, <2>4, <2>7
  <1> HIDE DEF f, g
  <1>9. ASSUME NEW d \in Customers, d # c
        PROVE  SumOf(g, SalesOf(d)') = SumOf(f, SalesOf(d))
    <2>1. SalesOf(d)' = SalesOf(d) /\ x \notin SalesOf(d)
      BY <1>2, <1>3, <1>9 DEF SalesOf, Existing
    <2>2. \A y \in SalesOf(d) : f[y] = g[y]
      BY <1>6, <1>8, <2>1
    <2> QED BY <1>8, <2>1, <2>2, SumSame
  <1>10. SumOf(g, SalesOf(c)') = SumOf(f, SalesOf(c)) + owed
    <2>1. CASE sale[x] = NoRow
      <3>1. SalesOf(c)' = SalesOf(c) \cup {x} /\ x \notin SalesOf(c)
        BY <1>2, <1>3, <2>1 DEF SalesOf, Existing
      <3>2. SumOf(g, SalesOf(c)') = g[x] + SumOf(g, SalesOf(c))
        <4>1. \A y \in SalesOf(c) \cup {x} : g[y] \in Int
          BY <1>1, <1>6, <1>8, <3>1
        <4> QED BY <1>1, <1>8, <3>1, <4>1, SumAdd
      <3>3. SumOf(g, SalesOf(c)) = SumOf(f, SalesOf(c))
        <4>1. \A y \in SalesOf(c) : f[y] = g[y]
          BY <1>1, <1>6, <1>8, <3>1
        <4> QED BY <1>1, <1>8, <4>1, SumSame
      <3>4. SumOf(f, SalesOf(c)) \in Int
        BY <1>1, <1>8, SumType
      <3> QED BY <1>6, <2>1, <3>2, <3>3, <3>4
    <2>2. CASE sale[x] # NoRow
      <3>1. SalesOf(c)' = SalesOf(c) /\ x \in SalesOf(c)
        BY <1>2, <1>3, <2>2 DEF SalesOf, Existing
      <3>2. \A y \in SalesOf(c) : f[y] \in Int /\ g[y] \in Int
        BY <1>1, <1>6, <1>8
      <3>3. \A y \in SalesOf(c) \ {x} : g[y] = f[y]
        BY <1>1, <1>6, <1>8
      <3>4. SumOf(g, SalesOf(c)) = SumOf(f, SalesOf(c)) + (g[x] - f[x])
        BY <1>1, <1>8, <3>1, <3>2, <3>3, SumChange
      <3> QED BY <1>6, <1>7, <2>2, <3>1, <3>4
    <2> QED BY <2>1, <2>2
  <1>11. ASSUME NEW d \in Customers
         PROVE  account'[d].owed = Opening[d].owed + MapThenSumSet(Owing, SalesOf(d))'
                                     - collected'[d]
    <2>1. account[d].owed = Opening[d].owed + SumOf(f, SalesOf(d)) - collected[d]
      BY <1>8 DEF BooksInv, BalanceAddsUp
    <2>2. Opening[d].owed \in Int /\ SumOf(f, SalesOf(d)) \in Int
      BY <1>8, SumType, SalesConstants
    <2>3. CASE d = c
      BY <1>1, <1>8, <1>10, <2>1, <2>2, <2>3
    <2>4. CASE d # c
      BY <1>1, <1>8, <1>9, <2>1, <2>2, <2>4
    <2> QED BY <2>3, <2>4
  <1>12. BalanceAddsUp'
    BY <1>11 DEF BalanceAddsUp
  <1> QED BY <1>3, <1>4, <1>12 DEF BooksInv


\* Nothing that the balances are made of has changed.
LEMMA SameBooks ==
    ASSUME SalesInv, BooksInv, sale' = sale,
           \A d \in Customers :
              account'[d].owed + collected'[d] = account[d].owed + collected[d],
           account' \in [Customers -> Account], collected' \in [Customers -> Nat]
    PROVE  BooksInv'
  <1>1. Existing' = Existing /\ \A d \in Customers : SalesOf(d)' = SalesOf(d)
    BY DEF Existing, SalesOf
  <1>2. ASSUME NEW d \in Customers
        PROVE  account'[d].owed = Opening[d].owed + MapThenSumSet(Owing, SalesOf(d))'
                                    - collected'[d]
    <2>1. SalesOf(d) \in SUBSET Sales /\ IsFiniteSet(SalesOf(d))
      BY FS_Subset DEF BooksInv, SalesOf, Existing
    <2> DEFINE f == [x \in Sales |-> OwingOf(sale[x])]
    <2>2. PICK S : S = SalesOf(d)
      OBVIOUS
    <2>3. MapThenSumSet(Owing, S) = SumOf(f, S) /\ MapThenSumSet(Owing, S)' = SumOf(f, S)
      BY <2>1, <2>2, OwingSum, OwingSumNext
    <2> HIDE DEF f
    <2>4. MapThenSumSet(Owing, SalesOf(d)) = SumOf(f, S)
      BY <2>2, <2>3
    <2>5. MapThenSumSet(Owing, SalesOf(d))' = SumOf(f, S)
      BY <1>1, <2>2, <2>3 DEF MapThenSumSet, MapThenFoldSet
    <2>6. SumOf(f, S) \in Int
      <3>1. \A y \in S : f[y] \in Int
        BY <2>1, <2>2, OwingIsInteger DEF SalesOf, Existing, SalesInv, TypeOK, f
      <3> QED BY <2>1, <2>2, <3>1, SumType
    <2>7. account[d].owed = Opening[d].owed + SumOf(f, S) - collected[d]
      BY <2>4 DEF BooksInv, BalanceAddsUp
    <2>8. /\ account[d].owed \in Int /\ account'[d].owed \in Int /\ Opening[d].owed \in Int
          /\ collected[d] \in Int /\ collected'[d] \in Int
          /\ account'[d].owed + collected'[d] = account[d].owed + collected[d]
      BY SalesConstants DEF SalesInv, TypeOK, Account
    <2> QED BY <2>5, <2>6, <2>7, <2>8, SMTT(30)
  <1>3. BalanceAddsUp'
    BY <1>2 DEF BalanceAddsUp
  <1>4. IsFiniteSet(Existing') /\ \A x \in Existing' : Books(sale'[x])
    BY <1>1 DEF BooksInv
  <1> QED BY <1>3, <1>4 DEF BooksInv

LEMMA SellBooks ==
    ASSUME SalesInv, BooksInv, NEW s \in Sessions, Ready(s), Accepted(s), Sell(s)
    PROVE  BooksInv'
  <1> DEFINE q == req[s]
             new == [customer |-> q.customer, qty |-> q.cart.qty, total |-> q.cart.total,
                     paid |-> q.cart.total - q.credit, status |-> SoldStatus(q),
                     returned |-> 0, money |-> 0, toStore |-> 0, toAccount |-> 0,
                     restored |-> 0, credit |-> q.credit, store |-> q.store, later |-> 0,
                     applied |-> 0]
  <1>1. /\ q.op = "sell" /\ q \in SellRequest /\ sale[q.sale] = NoRow
        /\ q.credit + q.store <= q.cart.total
    BY ReadyReadsTheRows, RequestKinds DEF Sell, SalesInv, RequestsInv
  <1>2. /\ q.sale \in Sales /\ q.customer \in Customers
        /\ q.cart.qty \in Nat \ {0} /\ q.cart.total \in Nat
        /\ q.credit \in Nat /\ q.store \in Nat /\ - q.store \in Int
    BY <1>1, SalesConstants DEF SellRequest, Cart
  <1>3. SoldStatus(q) \in Statuses \ {"voided"}
    BY DEF SoldStatus, Statuses
  <1>4. new \in Sale
    <2>1. q.cart.total - q.credit \in Nat
      BY <1>1, <1>2
    <2> QED BY <1>2, <1>3, <2>1 DEF Sale
  <1>5. Books(new) /\ OwingOf(new) = q.credit
    BY <1>2, <1>3 DEF Books, OwingOf
  <1>6. sale' = [sale EXCEPT ![q.sale] = new] /\ collected' = collected
    BY DEF Sell
  <1>7. account' = Shift(q.customer, q.credit, - q.store)
    BY DEF Sell
  <1>8. /\ account'[q.customer].owed = account[q.customer].owed + q.credit
        /\ \A d \in Customers \ {q.customer} : account'[d].owed = account[d].owed
    BY <1>2, <1>7, ShiftedBalance
  <1>9. new.customer = q.customer
    OBVIOUS
  <1>10. q.credit = OwingOf(new) - (IF sale[q.sale] = NoRow THEN 0 ELSE OwingOf(sale[q.sale]))
    BY <1>1, <1>2, <1>5
  <1>11. q.credit \in Int /\ new.customer \in Customers
    BY <1>2
  <1> HIDE DEF new, q
  <1> QED BY <1>1, <1>2, <1>4, <1>5, <1>6, <1>8, <1>9, <1>10, <1>11, OneSaleChanges

LEMMA PayBooks ==
    ASSUME SalesInv, BooksInv, NEW s \in Sessions, Ready(s), Accepted(s), Pay(s)
    PROVE  BooksInv'
  <1> DEFINE q == req[s]
             x == read[s].sale
             status == IF x.status \notin {"credit", "partial"} THEN x.status
                       ELSE IF Balance(x) <= q.amount THEN "completed" ELSE "partial"
             new == PaidSale(x, x.paid + q.amount, x.later + q.amount, status)
  <1>1. q.op = "pay" /\ q.op \in OnSale
    BY DEF Pay, OnSale
  <1>2. q.amount \in Nat /\ - q.amount \in Int
    BY <1>1, ReadyReadsTheRows, RequestKinds DEF PayRequest
  <1>3. x.status # "voided"
    BY <1>1 DEF Accepted, CanPay
  <1>4. /\ q.sale \in Sales /\ sale[q.sale] = x /\ x # NoRow /\ x \in Sale
        /\ x.paid \in Nat /\ x.later \in Nat /\ x.total \in Nat /\ x.credit \in Nat
        /\ x.applied \in Nat /\ x.customer \in Customers
    BY <1>1, SaleOfRequest
  <1>5. status \in Statuses \ {"voided"}
    BY <1>1, <1>3, SaleOfRequest DEF Statuses
  <1>6. /\ x \in Sale /\ status \in Statuses
        /\ x.paid + q.amount \in Nat /\ x.later + q.amount \in Nat
    BY <1>2, <1>4, <1>5
  <1> HIDE DEF status
  <1>7. /\ new \in Sale
        /\ new.status = status /\ new.paid = x.paid + q.amount /\ new.customer = x.customer
        /\ new.total = x.total /\ new.returned = x.returned /\ new.credit = x.credit
        /\ new.later = x.later + q.amount /\ new.applied = x.applied
    BY <1>6, PaidSaleColumns
  <1>8. Books(x)
    BY <1>4 DEF BooksInv, Existing
  <1>9. sale' = [sale EXCEPT ![q.sale] = new] /\ collected' = collected
    BY DEF Pay, PaidSale, status
  <1> HIDE DEF new, x, q
  <1>10. Books(new) /\ - q.amount = OwingOf(new) - OwingOf(x)
    BY <1>2, <1>3, <1>4, <1>5, <1>7, <1>8 DEF Books, OwingOf
  <1>11. account' = Shift(x.customer, - q.amount, 0)
    BY DEF Pay, q, x
  <1>12. /\ account'[x.customer].owed = account[x.customer].owed + (- q.amount)
         /\ \A d \in Customers \ {x.customer} : account'[d].owed = account[d].owed
    BY <1>2, <1>4, <1>11, ShiftedBalance
  <1>13. - q.amount = OwingOf(new) - (IF sale[q.sale] = NoRow THEN 0 ELSE OwingOf(sale[q.sale]))
    BY <1>4, <1>10
  <1> QED BY <1>2, <1>4, <1>7, <1>9, <1>10, <1>12, <1>13, OneSaleChanges, ZenonT(40)

\* A void takes back what the sale still adds, no more and no less.
LEMMA VoidBooks ==
    ASSUME SalesInv, BooksInv, NEW s \in Sessions, Ready(s), Accepted(s), Void(s)
    PROVE  BooksInv'
  <1> DEFINE q == req[s]
             x == read[s].sale
             new == VoidedSale(x, x.restored + x.qty)
             owed == - Positive(CreditPaid(x))
  <1>1. q.op = "void" /\ q.op \in OnSale
    BY DEF Void, OnSale
  <1>2. x.status # "voided" /\ x.returned = 0
    BY <1>1 DEF Accepted, CanVoid
  <1>3. /\ q.sale \in Sales /\ sale[q.sale] = x /\ x # NoRow /\ x \in Sale /\ Sound(x)
        /\ x.paid \in Nat /\ x.later \in Nat /\ x.total \in Nat /\ x.credit \in Nat
        /\ x.qty \in Nat /\ x.restored \in Nat /\ x.store \in Nat
        /\ x.applied \in Nat /\ x.customer \in Customers
    BY <1>1, SaleOfRequest
  <1>4. x.restored + x.qty \in Nat
    BY <1>3
  <1>5. /\ new \in Sale
        /\ new.status = "voided" /\ new.paid = x.paid /\ new.customer = x.customer
        /\ new.total = x.total /\ new.returned = x.returned /\ new.credit = x.credit
        /\ new.later = x.later /\ new.applied = x.applied
    BY <1>3, <1>4, VoidedSaleColumns, ZenonT(40)
  <1>6. Books(x)
    BY <1>3 DEF BooksInv, Existing
  <1>7. sale' = [sale EXCEPT ![q.sale] = new] /\ collected' = collected
    BY DEF Void, VoidedSale
  <1>8. account' = Shift(x.customer, owed, x.store)
    BY DEF Void
  <1> HIDE DEF new, x, q
  <1>9. Books(new) /\ OwingOf(new) = 0
    BY <1>5, <1>6 DEF Books, OwingOf
  <1>10. x.paid <= x.total /\ x.paid + x.credit = x.total + x.later /\ x.applied = 0
    BY <1>2, <1>3, <1>6 DEF Books, Sound
  <1>11. owed = OwingOf(new) - OwingOf(x) /\ owed \in Int
    BY <1>2, <1>3, <1>9, <1>10 DEF OwingOf, Positive, CreditPaid
  <1> HIDE DEF owed
  <1>12. /\ account'[x.customer].owed = account[x.customer].owed + owed
         /\ \A d \in Customers \ {x.customer} : account'[d].owed = account[d].owed
    BY <1>3, <1>8, <1>11, ShiftedBalance
  <1>13. owed = OwingOf(new) - (IF sale[q.sale] = NoRow THEN 0 ELSE OwingOf(sale[q.sale]))
    BY <1>3, <1>11
  <1> QED BY <1>3, <1>5, <1>7, <1>9, <1>11, <1>12, <1>13, OneSaleChanges, ZenonT(40)

LEMMA ReturnBooks ==
    ASSUME SalesInv, BooksInv, NEW s \in Sessions, Ready(s), Accepted(s), Return(s)
    PROVE  BooksInv'
  <1> DEFINE q == req[s]
             x == read[s].sale
             refund == Refund(x, q.qty)
             applied == IF q.method = "account"
                        THEN Applied(account[x.customer].owed, refund) ELSE 0
             restored == IF q.restock THEN x.restored + q.qty ELSE x.restored
             money == IF q.method = "money" THEN x.money + refund ELSE x.money
             toStore == IF q.method = "store" THEN x.toStore + refund ELSE x.toStore
             toAccount == IF q.method = "account" THEN x.toAccount + refund ELSE x.toAccount
             status == IF x.returned + q.qty >= x.qty THEN "returned" ELSE "part_returned"
             returned == x.returned + q.qty
             credited == x.applied + Positive(applied)
             new == ReturnedSale(x, returned, restored, money, toStore, toAccount,
                                 credited, status)
             store == CASE q.method = "money" -> 0
                        [] q.method = "store" -> refund
                        [] q.method = "account" -> Positive(refund - applied)
             owed == - Positive(applied)
  <1>1. q.op = "return" /\ q.op \in OnSale
    BY DEF Return, OnSale
  <1>2. q.qty \in Nat /\ q.method \in {"money", "store", "account"} /\ q.restock \in BOOLEAN
    BY <1>1, ReadyReadsTheRows, RequestKinds DEF ReturnRequest, Methods
  <1>3. x.status # "voided" /\ refund > 0
    BY <1>1 DEF Accepted, CanReturn
  <1>4. /\ q.sale \in Sales /\ sale[q.sale] = x /\ x # NoRow /\ x \in Sale
        /\ x.qty \in Nat \ {0} /\ x.total \in Nat /\ x.returned \in Nat
        /\ x.restored \in Nat /\ x.money \in Nat /\ x.toStore \in Nat /\ x.toAccount \in Nat
        /\ x.paid \in Nat /\ x.later \in Nat /\ x.credit \in Nat
        /\ x.applied \in Nat /\ x.customer \in Customers /\ account[x.customer].owed \in Int
    BY <1>1, SaleOfRequest
  <1>5. refund \in Nat /\ q.qty > 0
    <2>1. RoundHalfUp(x.total, x.qty) \in Nat
      BY <1>4, RoundingIsNatural
    <2>2. RoundHalfUp(x.total, x.qty) * q.qty \in Nat
      BY <1>2, <2>1, RefundsAddUp
    <2>3. RoundHalfUp(x.total, x.qty) * 0 = 0
      BY <2>1
    <2> QED BY <1>2, <1>3, <2>2, <2>3 DEF Refund
  <1> HIDE DEF refund
  <1>6. applied \in Int /\ Positive(applied) \in Nat
    BY <1>4, <1>5 DEF Applied, Least, Positive
  <1>7. /\ status \in Statuses \ {"voided"} /\ returned \in Nat /\ returned # 0
        /\ restored \in Nat /\ credited \in Nat
        /\ money \in Nat /\ toStore \in Nat /\ toAccount \in Nat
    BY <1>2, <1>4, <1>5, <1>6 DEF Statuses
  <1>8. store \in Int /\ owed \in Int
    BY <1>2, <1>5, <1>6 DEF Positive
  <1>9. sale' = [sale EXCEPT ![q.sale] = new] /\ collected' = collected
    BY DEF Return, ReturnedSale, refund
  <1>10. account' = Shift(x.customer, owed, store)
    BY DEF Return, refund
  <1>11. credited = x.applied - owed
    BY <1>4, <1>6
  <1> HIDE DEF applied, returned, credited, restored, money, toStore, toAccount, status, store,
               owed
  <1>12. /\ new \in Sale
         /\ new.status = status /\ new.paid = x.paid /\ new.customer = x.customer
         /\ new.total = x.total /\ new.returned = returned /\ new.credit = x.credit
         /\ new.later = x.later /\ new.applied = credited
    BY <1>4, <1>7 DEF Sale, ReturnedSale
  <1>13. Books(x)
    BY <1>4 DEF BooksInv, Existing
  <1> HIDE DEF new, x, q
  <1>14. Books(new) /\ owed = OwingOf(new) - OwingOf(x)
    BY <1>3, <1>4, <1>7, <1>8, <1>11, <1>12, <1>13 DEF Books, OwingOf
  <1>15. /\ account'[x.customer].owed = account[x.customer].owed + owed
         /\ \A d \in Customers \ {x.customer} : account'[d].owed = account[d].owed
    BY <1>4, <1>8, <1>10, ShiftedBalance
  <1>16. owed = OwingOf(new) - (IF sale[q.sale] = NoRow THEN 0 ELSE OwingOf(sale[q.sale]))
    BY <1>4, <1>14
  <1> QED BY <1>4, <1>8, <1>9, <1>12, <1>14, <1>15, <1>16, OneSaleChanges

\* The balance that a collection writes back is the one that it locked.
LEMMA CollectBooks ==
    ASSUME SalesInv, BooksInv, NEW s \in Sessions, Ready(s), Accepted(s), Collect(s),
           account' \in [Customers -> Account], collected' \in [Customers -> Nat]
    PROVE  BooksInv'
  <1> DEFINE q == req[s]
             c == q.customer
  <1>1. q.op = "collect" /\ q.op \in OnAccount
    BY DEF Collect, OnAccount
  <1>2. c \in Customers /\ q.amount \in Nat /\ read[s].account = account[c]
    BY <1>1, ReadyReadsTheRows, RequestKinds DEF CollectRequest
  <1>3. account \in [Customers -> Account] /\ collected \in [Customers -> Nat]
    BY DEF SalesInv, TypeOK
  <1>4. account' = [account EXCEPT ![c].owed = account[c].owed - q.amount] /\ sale' = sale
    BY <1>2 DEF Collect
  <1>5. collected' = [collected EXCEPT ![c] = @ + q.amount]
    BY DEF Collect
  <1> HIDE DEF c, q
  <1>6. account'[c].owed = account[c].owed - q.amount
    <2>1. account[c] \in Account
      BY <1>2, <1>3
    <2>2. account'[c] = [account[c] EXCEPT !.owed = account[c].owed - q.amount]
      BY <1>2, <1>3, <1>4
    <2> QED BY <2>1, <2>2 DEF Account
  <1>7. \A d \in Customers \ {c} : account'[d] = account[d] /\ collected'[d] = collected[d]
    BY <1>3, <1>4, <1>5
  <1>8. account[c].owed \in Int /\ collected[c] \in Nat /\ collected'[c] = collected[c] + q.amount
    BY <1>2, <1>3, <1>5 DEF Account
  <1>9. account'[c].owed + collected'[c] = account[c].owed + collected[c]
    BY <1>2, <1>6, <1>8
  <1>10. \A d \in Customers : account'[d].owed + collected'[d] = account[d].owed + collected[d]
    BY <1>7, <1>9
  <1> QED BY <1>4, <1>10, SameBooks

\* No update of a balance is lost, however requests run at the same time, and a void
\* takes back exactly what the sale still added: the balance of a customer is what the
\* sales, payments, returns and collections add up to (apply_balance_change of
\* apps/customers/services.py beside the absolute write of record_customer_payment).
THEOREM BalancesAddUp == Spec => []BalanceAddsUp
  <1>1. Init => BooksInv
    <2> SUFFICES ASSUME Init PROVE BooksInv
      OBVIOUS
    <2>1. Existing = {} /\ \A c \in Customers : SalesOf(c) = {}
      BY DEF Init, Existing, SalesOf
    <2>2. IsFiniteSet(Existing) /\ \A x \in Existing : Books(sale[x])
      BY <2>1, FS_EmptySet
    <2>3. MapThenSumSet(Owing, {}) = 0
      <3>1. MapThenSumSet(Owing, {}) = SumOf([x \in Sales |-> OwingOf(sale[x])], {})
        BY FS_EmptySet, OwingSum
      <3> QED BY <3>1, FS_EmptySet, SumStep
    <2>4. \A c \in Customers : Opening[c].owed \in Int
      BY SalesConstants
    <2>5. ASSUME NEW c \in Customers
          PROVE  account[c].owed = Opening[c].owed + MapThenSumSet(Owing, SalesOf(c))
                                     - collected[c]
      <3>1. MapThenSumSet(Owing, SalesOf(c)) = 0
        BY <2>1, <2>3
      <3> QED BY <2>4, <3>1 DEF Init
    <2>6. BalanceAddsUp
      BY <2>5 DEF BalanceAddsUp
    <2> QED BY <2>2, <2>6 DEF BooksInv
  <1>2. SalesInv /\ SalesInv' /\ BooksInv /\ [Next]_vars => BooksInv'
    <2> SUFFICES ASSUME SalesInv, SalesInv', BooksInv, [Next]_vars PROVE BooksInv'
      OBVIOUS
    <2>1. account' \in [Customers -> Account] /\ collected' \in [Customers -> Nat]
      BY DEF SalesInv, TypeOK
    <2>2. ASSUME sale' = sale, account' = account, collected' = collected PROVE BooksInv'
      BY <2>1, <2>2, SameBooks
    <2>3. ASSUME NEW s \in Sessions, StartRequest(s)
          PROVE  UNCHANGED <<sale, account, collected>>
      BY <2>3 DEF StartRequest, StartSell, StartPay, StartVoid, StartReturn, StartCollect, Start
    <2>4. ASSUME NEW s \in Sessions, Lock(s) \/ Refuse(s) \/ DeadlockVictim(s) \/ Crash(s)
          PROVE  UNCHANGED <<sale, account, collected>>
      BY <2>4 DEF Lock, Refuse, DeadlockVictim, Crash, Abort
    <2>5. ASSUME NEW s \in Sessions, Commit(s) PROVE BooksInv'
      BY <2>1, <2>5, SellBooks, PayBooks, VoidBooks, ReturnBooks, CollectBooks DEF Commit
    <2> QED BY <2>2, <2>3, <2>4, <2>5 DEF Next, vars
  <1>3. BooksInv => BalanceAddsUp
    BY DEF BooksInv
  <1> QED BY <1>1, <1>2, <1>3, SalesInvariant, PTL DEF Spec

=============================================================================
