-------------------------- MODULE StockLedgerProofs --------------------------
(***************************************************************************)
(* What StockLedger and StockDocuments guarantee for any number of         *)
(* warehouses, items, sessions, requests and documents.                    *)
(*                                                                         *)
(* The ledger: the cached level is right because a session's uncommitted   *)
(* movements continue the committed ledger of the location, and still do   *)
(* when another session commits, because the two hold different product    *)
(* locks.  That is the inductive invariant.                                *)
(*                                                                         *)
(* The documents post through the ledger and keep its invariant.  A        *)
(* request holds the row lock of its document, so the document stays as    *)
(* the request found it.  Halfway through a transfer the request has       *)
(* posted exactly the first rows of its plan, hence what it commits is the *)
(* whole hand-over: stock moves as StockCustody says, and nothing is lost. *)
(*                                                                         *)
(* Last come a Meter parent, corrected once, and the moving average, which *)
(* is fair to what a request sees because nobody else moves the item.      *)
(***************************************************************************)
EXTENDS StockDocuments, SequenceTheorems, SumTheorems

\* A product is locked by at most one session, and only a lock holder has
\* uncommitted movements of the product's items.
LocksExclude ==
    /\ \A s, r \in Sessions : s # r => txn[s].held \cap txn[r].held = {}
    /\ \A s \in Sessions, l \in Loc :
          pending[s][l] # <<>> => /\ ProductOf[l[2]] \in txn[s].held
                                  /\ txn[s].op # "idle"
    /\ \A s \in Sessions : txn[s].todo # <<>> => txn[s].op # "idle"

\* Uncommitted movements continue from the committed level.
ContinuesFrom(b, h) == \A n \in DOMAIN h :
    h[n].balance = (IF n = 1 THEN b ELSE h[n - 1].balance) + h[n].qty
PendingContinues == \A s \in Sessions, l \in Loc : ContinuesFrom(level[l], pending[s][l])

LedgerInv == TypeOK /\ LocksExclude /\ LedgerChain /\ PendingContinues

-----------------------------------------------------------------------------
(* Sequences of movements                                                  *)

\* The balance a session sees is the last balance it wrote, or the level.
LastBalance(b, h) == IF h = <<>> THEN b ELSE h[Len(h)].balance

LEMMA ChainExtends ==
    ASSUME NEW b \in Int, NEW h \in Seq(Movement), NEW e \in Movement,
           ContinuesFrom(b, h), e.balance = LastBalance(b, h) + e.qty
    PROVE  /\ ContinuesFrom(b, Append(h, e))
           /\ Append(h, e) \in Seq(Movement)
           /\ Append(h, e) # <<>>
  <1>1. /\ Append(h, e) \in Seq(Movement) /\ Len(Append(h, e)) = Len(h) + 1
        /\ Append(h, e)[Len(h) + 1] = e
        /\ \A n \in 1 .. Len(h) : Append(h, e)[n] = h[n]
    OBVIOUS
  <1>2. DOMAIN h = 1 .. Len(h) /\ DOMAIN Append(h, e) = 1 .. Len(h) + 1 /\ Len(h) \in Nat
    BY <1>1
  <1>3. h = <<>> <=> Len(h) = 0
    OBVIOUS
  <1>4. ASSUME NEW n \in 1 .. Len(h) + 1
        PROVE  Append(h, e)[n].balance
                 = (IF n = 1 THEN b ELSE Append(h, e)[n - 1].balance) + Append(h, e)[n].qty
    <2>1. CASE n = Len(h) + 1
      <3>1. Append(h, e)[n] = e
        BY <2>1, <1>1
      <3>2. n = 1 => LastBalance(b, h) = b
        BY <2>1, <1>2, <1>3 DEF LastBalance
      <3>3. n # 1 => LastBalance(b, h) = h[n - 1].balance /\ Append(h, e)[n - 1] = h[n - 1]
        <4> SUFFICES ASSUME n # 1
                     PROVE  /\ LastBalance(b, h) = h[n - 1].balance
                            /\ Append(h, e)[n - 1] = h[n - 1]
          OBVIOUS
        <4>1. n - 1 = Len(h) /\ Len(h) \in 1 .. Len(h) /\ h # <<>>
          BY <2>1, <1>2, <1>3
        <4> QED BY <4>1, <1>1 DEF LastBalance
      <3> QED BY <3>1, <3>2, <3>3
    <2>2. CASE n # Len(h) + 1
      <3>1. n \in 1 .. Len(h) /\ (n # 1 => n - 1 \in 1 .. Len(h))
        BY <2>2, <1>2
      <3> QED BY <3>1, <1>1, <1>2 DEF ContinuesFrom
    <2> QED BY <2>1, <2>2
  <1> QED BY <1>1, <1>2, <1>3, <1>4 DEF ContinuesFrom

LEMMA ChainsJoin ==
    ASSUME NEW h \in Seq(Movement), NEW p \in Seq(Movement),
           Chained(h), ContinuesFrom(Balance(h), p)
    PROVE  /\ h \o p \in Seq(Movement)
           /\ Chained(h \o p)
           /\ Balance(h \o p) = LastBalance(Balance(h), p)
  <1>1. /\ h \o p \in Seq(Movement) /\ Len(h \o p) = Len(h) + Len(p)
        /\ \A n \in 1 .. Len(h) : (h \o p)[n] = h[n]
        /\ \A n \in Len(h) + 1 .. Len(h) + Len(p) : (h \o p)[n] = p[n - Len(h)]
    OBVIOUS
  <1>2. /\ Len(h) \in Nat /\ Len(p) \in Nat
        /\ DOMAIN h = 1 .. Len(h) /\ DOMAIN p = 1 .. Len(p)
        /\ DOMAIN (h \o p) = 1 .. Len(h) + Len(p)
    BY <1>1
  <1>3. (h = <<>> <=> Len(h) = 0) /\ (p = <<>> <=> Len(p) = 0)
        /\ (h \o p = <<>> <=> Len(h) + Len(p) = 0)
    BY <1>1
  <1>4. ASSUME NEW n \in 1 .. Len(h) + Len(p)
        PROVE  (h \o p)[n].balance
                 = (IF n = 1 THEN 0 ELSE (h \o p)[n - 1].balance) + (h \o p)[n].qty
    <2>1. CASE n <= Len(h)
      <3>1. n \in 1 .. Len(h) /\ (n # 1 => n - 1 \in 1 .. Len(h))
        BY <2>1, <1>2
      <3> QED BY <3>1, <1>1, <1>2 DEF Chained
    <2>2. CASE n = Len(h) + 1
      <3>1. 1 \in DOMAIN p /\ (h \o p)[n] = p[1]
        BY <2>2, <1>1, <1>2
      <3>2. p[1].balance = Balance(h) + p[1].qty
        BY <3>1 DEF ContinuesFrom
      <3>3. n # 1 => (h \o p)[n - 1] = h[Len(h)] /\ Balance(h) = h[Len(h)].balance
        BY <2>2, <1>1, <1>2, <1>3 DEF Balance
      <3>4. n = 1 => Balance(h) = 0
        BY <2>2, <1>2, <1>3 DEF Balance
      <3> QED BY <3>1, <3>2, <3>3, <3>4
    <2>3. CASE n > Len(h) + 1
      <3>1. /\ n - Len(h) \in DOMAIN p /\ n - Len(h) # 1 /\ n # 1
            /\ (h \o p)[n] = p[n - Len(h)]
            /\ (h \o p)[n - 1] = p[n - Len(h) - 1]
        BY <2>3, <1>1, <1>2
      <3> QED BY <3>1 DEF ContinuesFrom
    <2> QED BY <2>1, <2>2, <2>3, <1>2
  <1>5. Balance(h \o p) = LastBalance(Balance(h), p)
    <2>1. CASE p = <<>>
      <3>1. h \o p = h
        BY <2>1
      <3> QED BY <3>1, <2>1 DEF LastBalance
    <2>2. CASE p # <<>>
      <3>1. (h \o p)[Len(h) + Len(p)] = p[Len(p)] /\ h \o p # <<>>
        BY <2>2, <1>1, <1>2, <1>3
      <3> QED BY <3>1, <2>2, <1>1 DEF Balance, LastBalance
    <2> QED BY <2>1, <2>2
  <1> QED BY <1>1, <1>2, <1>4, <1>5 DEF Chained

-----------------------------------------------------------------------------
(* Locations                                                               *)

LEMMA LocFacts ==
    /\ \A l \in Loc : l[1] \in Warehouses /\ l[2] \in Items /\ l = <<l[1], l[2]>>
    /\ \A m \in Line : Place(m) \in Loc /\ Place(m)[2] = m.item
  BY DEF Loc, Place, Line

LEMMA TypedView ==
    ASSUME TypeOK, NEW s \in Sessions, NEW l \in Loc
    PROVE  /\ View(s, l) \in Int
           /\ View(s, l) = LastBalance(level[l], pending[s][l])
           /\ pending[s][l] \in Seq(Movement)
           /\ level[l] \in Int
  <1>1. pending[s][l] \in Seq(Movement) /\ level[l] \in Int
    BY DEF TypeOK
  <1>2. pending[s][l] # <<>> => pending[s][l][Len(pending[s][l])] \in Movement
    BY <1>1
  <1>3. pending[s][l] # <<>> => pending[s][l][Len(pending[s][l])].balance \in Int
    BY <1>2 DEF Movement
  <1> QED BY <1>1, <1>3 DEF View, LastBalance

\* The movement that record_movement writes is typed and continues the balance.
LEMMA TypedEntry ==
    ASSUME TypeOK, NEW s \in Sessions, NEW m \in Line
    PROVE  /\ Entry(s, m) \in Movement
           /\ Delta(s, m) \in Int
           /\ Entry(s, m).qty = Delta(s, m)
           /\ Entry(s, m).type = m.type
           /\ Entry(s, m).balance = View(s, Place(m)) + Delta(s, m)
  <1>1. Place(m) \in Loc /\ View(s, Place(m)) \in Int
    BY LocFacts, TypedView
  <1>2. /\ m.type \in MovementTypes /\ m.qty \in Int /\ m.cost \in Nat /\ m.ref \in Refs
    BY DEF Line
  <1>3. Delta(s, m) \in Int
    BY <1>1, <1>2 DEF Delta
  <1> QED BY <1>1, <1>2, <1>3 DEF Entry, Movement

-----------------------------------------------------------------------------
(* The steps                                                               *)

LEMMA InitLedgerInv ==
    ASSUME InitLedger PROVE LedgerInv
  <1> USE StockConstants
  <1>1. ASSUME NEW l \in Loc
        PROVE  /\ LegacyHistory(l) \in Seq(Movement)
               /\ Chained(LegacyHistory(l))
               /\ Balance(LegacyHistory(l)) = level[l]
               /\ level[l] \in Int
    <2>1. l[1] \in Warehouses /\ l[2] \in Items /\ l = <<l[1], l[2]>>
      BY LocFacts
    <2>2. level[l] = IF l[2] \in MeterParents THEN Legacy[l] ELSE 0
      BY DEF InitLedger
    <2>3. l[2] \in MeterParents => Legacy[l] \in Int
      BY <2>1
    <2>4. CASE l[2] \in MeterParents /\ Legacy[l] # 0
      <3> DEFINE e == [type |-> "opening", qty |-> Legacy[l], cost |-> 0,
                       balance |-> Legacy[l], ref |-> Direct]
      <3>1. e \in Movement
        BY <2>3, <2>4 DEF Movement, MovementTypes, Refs, Direct, Legs
      <3>2. LegacyHistory(l) = <<e>>
        BY <2>4 DEF LegacyHistory
      <3>3. <<e>> \in Seq(Movement) /\ Len(<<e>>) = 1 /\ <<e>>[1] = e /\ DOMAIN <<e>> = {1}
            /\ <<e>> # <<>>
        BY <3>1
      <3>4. e.balance = e.qty /\ e.balance = level[l] /\ e.qty \in Int
        BY <2>2, <2>3, <2>4
      <3> HIDE DEF e
      <3>5. Chained(<<e>>)
        <4> SUFFICES ASSUME NEW n \in DOMAIN <<e>>
                     PROVE  <<e>>[n].balance
                              = (IF n = 1 THEN 0 ELSE <<e>>[n - 1].balance) + <<e>>[n].qty
          BY DEF Chained
        <4>1. n = 1
          BY <3>3
        <4>2. <<e>>[n] = e
          BY <4>1, <3>3
        <4>3. e.balance = 0 + e.qty
          BY <3>4
        <4> QED BY <4>1, <4>2, <4>3
      <3>6. Balance(<<e>>) = e.balance
        BY <3>3 DEF Balance
      <3> QED BY <2>2, <2>3, <2>4, <3>2, <3>3, <3>4, <3>5, <3>6
    <2>5. CASE ~(l[2] \in MeterParents /\ Legacy[l] # 0)
      <3>1. LegacyHistory(l) = <<>> /\ level[l] = 0
        BY <2>2, <2>5 DEF LegacyHistory
      <3>2. <<>> \in Seq(Movement) /\ DOMAIN <<>> = {}
        OBVIOUS
      <3> QED BY <3>1, <3>2 DEF Chained, Balance
    <2> QED BY <2>4, <2>5
  <1>2. TypeOK
    <2>1. level \in [Loc -> Int]
      BY <1>1 DEF InitLedger
    <2>2. hist \in [Loc -> Seq(Movement)]
      BY <1>1 DEF InitLedger
    <2>3. Idle \in Txn
      <3>1. <<>> \in Seq(Line)
        OBVIOUS
      <3> QED BY <3>1 DEF Idle, Txn, Ops
    <2>4. NothingPending \in [Loc -> Seq(Movement)]
      <3>1. <<>> \in Seq(Movement)
        OBVIOUS
      <3> QED BY <3>1 DEF NothingPending
    <2> QED BY <2>1, <2>2, <2>3, <2>4 DEF InitLedger, TypeOK
  <1>3. LocksExclude
    BY DEF InitLedger, LocksExclude, Idle, NothingPending
  <1>4. LedgerChain
    BY <1>1 DEF InitLedger, LedgerChain
  <1>5. PendingContinues
    <2>1. DOMAIN <<>> = {}
      OBVIOUS
    <2> QED BY <2>1 DEF InitLedger, PendingContinues, ContinuesFrom, NothingPending
  <1> QED BY <1>2, <1>3, <1>4, <1>5 DEF LedgerInv

\* Taking one more product lock keeps the locks exclusive.
LEMMA LockKeepsExclusion ==
    ASSUME LedgerInv, NEW s \in Sessions, NEW t \in Txn,
           txn' = [txn EXCEPT ![s] = t],
           \A r \in Sessions \ {s} : t.held \cap txn[r].held = {}
    PROVE  /\ txn' \in [Sessions -> Txn]
           /\ \A q, r \in Sessions : q # r => txn'[q].held \cap txn'[r].held = {}
  <1>1. txn \in [Sessions -> Txn]
    BY DEF LedgerInv, TypeOK
  <1>2. \A r \in Sessions : txn'[r] = IF r = s THEN t ELSE txn[r]
    BY <1>1
  <1>3. txn' \in [Sessions -> Txn]
    BY <1>1
  <1>4. \A q, r \in Sessions : q # r => txn[q].held \cap txn[r].held = {}
    BY DEF LedgerInv, LocksExclude
  <1>5. ASSUME NEW q \in Sessions, NEW r \in Sessions, q # r
        PROVE  txn'[q].held \cap txn'[r].held = {}
    <2>1. CASE q = s
      BY <2>1, <1>2, <1>5
    <2>2. CASE r = s
      BY <2>2, <1>2, <1>5
    <2>3. CASE q # s /\ r # s
      BY <2>3, <1>2, <1>4, <1>5
    <2> QED BY <2>1, <2>2, <2>3
  <1> QED BY <1>3, <1>5

LEMMA AdvanceTyped ==
    ASSUME LedgerInv, NEW s \in Sessions, txn[s].todo # <<>>,
           NEW seen \in Policies \cup {"unread"}
    PROVE  /\ Current(s) \in Line
           /\ ProductOf[Current(s).item] \in Products
           /\ Advance(s, Current(s), seen) \in Txn
           /\ Advance(s, Current(s), seen).held
                = txn[s].held \cup {ProductOf[Current(s).item]}
           /\ Advance(s, Current(s), seen).op = txn[s].op
  <1>1. txn[s] \in Txn /\ txn[s].todo \in Seq(Line)
    BY DEF LedgerInv, TypeOK, Txn
  <1>2. Current(s) \in Line /\ Tail(txn[s].todo) \in Seq(Line)
    BY <1>1 DEF Current
  <1>3. Current(s).item \in Items
    BY <1>2 DEF Line
  <1>4. ProductOf[Current(s).item] \in Products
    BY <1>3, StockConstants
  <1>5. Place(Current(s)) \in Loc
    BY <1>2, LocFacts
  <1> QED BY <1>1, <1>2, <1>4, <1>5 DEF Advance, Txn

LEMMA MoveKeepsInv ==
    ASSUME LedgerInv, NEW s \in Sessions, RecordMovement(s)
    PROVE  LedgerInv'
  <1> DEFINE m == Current(s)
             l0 == Place(m)
             e == Entry(s, m)
             seen == IF Short(s, m) THEN PolicySeen(s) ELSE txn[s].seen
             t == Advance(s, m, seen)
  <1>1. TypeOK /\ LocksExclude /\ LedgerChain /\ PendingContinues
    BY DEF LedgerInv
  <1>2. /\ txn[s].todo # <<>>
        /\ CanLock(s, ProductOf[m.item])
        /\ pending' = [pending EXCEPT ![s][l0] = Append(@, e)]
        /\ txn' = [txn EXCEPT ![s] = t]
        /\ level' = level /\ stocked' = stocked /\ hist' = hist
        /\ policy' = policy /\ relaxed' = relaxed
    BY DEF RecordMovement
  <1>3. seen \in Policies \cup {"unread"}
    BY <1>1 DEF TypeOK, Txn, PolicySeen
  <1>4. /\ m \in Line /\ t \in Txn /\ t.op = txn[s].op
        /\ t.held = txn[s].held \cup {ProductOf[m.item]}
    BY <1>2, <1>3, AdvanceTyped
  <1>5. l0 \in Loc /\ l0[2] = m.item
    BY <1>4, LocFacts
  <1>6. e \in Movement /\ e.balance = LastBalance(level[l0], pending[s][l0]) + e.qty
    BY <1>1, <1>4, <1>5, TypedEntry, TypedView
  <1> HIDE DEF m, l0, e, seen, t
  <1>7. /\ txn' \in [Sessions -> Txn]
        /\ \A q, r \in Sessions : q # r => txn'[q].held \cap txn'[r].held = {}
    <2>1. \A r \in Sessions \ {s} : t.held \cap txn[r].held = {}
      <3> SUFFICES ASSUME NEW r \in Sessions \ {s} PROVE t.held \cap txn[r].held = {}
        OBVIOUS
      <3>1. txn[s].held \cap txn[r].held = {}
        BY <1>1 DEF LocksExclude
      <3>2. ProductOf[m.item] \notin txn[r].held
        BY <1>2 DEF CanLock
      <3> QED BY <3>1, <3>2, <1>4
    <2> QED BY <2>1, <1>2, <1>4, LockKeepsExclusion
  <1>8. \A r \in Sessions, l \in Loc :
           pending'[r][l] = IF r = s /\ l = l0 THEN Append(pending[s][l0], e)
                                               ELSE pending[r][l]
    BY <1>1, <1>2, <1>5 DEF TypeOK
  <1>9. /\ ContinuesFrom(level[l0], Append(pending[s][l0], e))
        /\ Append(pending[s][l0], e) \in Seq(Movement)
    <2>1. level[l0] \in Int /\ pending[s][l0] \in Seq(Movement)
      BY <1>1, <1>5 DEF TypeOK
    <2>2. ContinuesFrom(level[l0], pending[s][l0])
      BY <1>1, <1>5 DEF PendingContinues
    <2> QED BY <2>1, <2>2, <1>6, ChainExtends
  <1>10. TypeOK'
    <2>1. pending' \in [Sessions -> [Loc -> Seq(Movement)]]
      BY <1>1, <1>2, <1>5, <1>9 DEF TypeOK
    <2> QED BY <2>1, <1>1, <1>2, <1>7 DEF TypeOK
  <1>11. LocksExclude'
    <2>1. \A r \in Sessions : /\ txn[r].held \subseteq txn'[r].held
                              /\ txn'[r].op = txn[r].op
      BY <1>1, <1>2, <1>4 DEF TypeOK
    <2>2. ProductOf[l0[2]] \in txn'[s].held
      BY <1>1, <1>2, <1>4, <1>5 DEF TypeOK
    <2>3. txn[s].op # "idle"
      BY <1>1, <1>2 DEF LocksExclude
    <2>4. \A r \in Sessions : txn'[r].todo # <<>> => txn[r].op # "idle"
      BY <1>1, <1>2, <2>3 DEF TypeOK, LocksExclude
    <2> QED BY <1>1, <1>7, <1>8, <2>1, <2>2, <2>3, <2>4 DEF LocksExclude
  <1>12. LedgerChain'
    BY <1>1, <1>2 DEF LedgerChain
  <1>13. PendingContinues'
    BY <1>1, <1>2, <1>8, <1>9 DEF PendingContinues
  <1> QED BY <1>10, <1>11, <1>12, <1>13 DEF LedgerInv

LEMMA SkipKeepsInv ==
    ASSUME LedgerInv, NEW s \in Sessions, SkipImportRow(s)
    PROVE  LedgerInv'
  <1> DEFINE m == Current(s)
             t == Advance(s, m, txn[s].seen)
  <1>1. TypeOK /\ LocksExclude /\ LedgerChain /\ PendingContinues
    BY DEF LedgerInv
  <1>2. /\ txn[s].todo # <<>>
        /\ CanLock(s, ProductOf[m.item])
        /\ txn' = [txn EXCEPT ![s] = t]
        /\ level' = level /\ stocked' = stocked /\ hist' = hist /\ pending' = pending
        /\ policy' = policy /\ relaxed' = relaxed
    BY DEF SkipImportRow
  <1>3. txn[s].seen \in Policies \cup {"unread"}
    BY <1>1 DEF TypeOK, Txn
  <1>4. /\ m \in Line /\ t \in Txn /\ t.op = txn[s].op
        /\ t.held = txn[s].held \cup {ProductOf[m.item]}
    BY <1>2, <1>3, AdvanceTyped
  <1> HIDE DEF m, t
  <1>5. /\ txn' \in [Sessions -> Txn]
        /\ \A q, r \in Sessions : q # r => txn'[q].held \cap txn'[r].held = {}
    <2>1. \A r \in Sessions \ {s} : t.held \cap txn[r].held = {}
      <3> SUFFICES ASSUME NEW r \in Sessions \ {s} PROVE t.held \cap txn[r].held = {}
        OBVIOUS
      <3>1. txn[s].held \cap txn[r].held = {}
        BY <1>1 DEF LocksExclude
      <3>2. ProductOf[m.item] \notin txn[r].held
        BY <1>2 DEF CanLock
      <3> QED BY <3>1, <3>2, <1>4
    <2> QED BY <2>1, <1>2, <1>4, LockKeepsExclusion
  <1>6. TypeOK'
    BY <1>1, <1>2, <1>5 DEF TypeOK
  <1>7. LocksExclude'
    <2>1. \A r \in Sessions : /\ txn[r].held \subseteq txn'[r].held
                              /\ txn'[r].op = txn[r].op
      BY <1>1, <1>2, <1>4 DEF TypeOK
    <2>2. \A r \in Sessions : txn'[r].todo # <<>> => txn[r].op # "idle"
      BY <1>1, <1>2 DEF TypeOK, LocksExclude
    <2> QED BY <1>1, <1>2, <1>5, <2>1, <2>2 DEF LocksExclude
  <1>8. LedgerChain' /\ PendingContinues'
    BY <1>1, <1>2 DEF LedgerChain, PendingContinues
  <1> QED BY <1>6, <1>7, <1>8 DEF LedgerInv

LEMMA BeginKeepsInv ==
    ASSUME LedgerInv, NEW s \in Sessions, NEW op \in Ops \ {"idle"},
           NEW doc \in Docs \cup {NoDoc}, NEW lines \in Seq(Line),
           NEW ahead \in SUBSET Products, Begin(s, op, doc, lines, ahead)
    PROVE  LedgerInv'
  <1>1. TypeOK /\ LocksExclude /\ LedgerChain /\ PendingContinues
    BY DEF LedgerInv
  <1>2. PICK seen \in {policy, "unread"} :
           txn' = [txn EXCEPT ![s] = [op |-> op, doc |-> doc, todo |-> lines,
                                      held |-> ahead, seen |-> seen, done |-> {}]]
    BY DEF Begin
  <1>3. /\ level' = level /\ stocked' = stocked /\ hist' = hist /\ pending' = pending
        /\ policy' = policy /\ relaxed' = relaxed
        /\ txn[s].op = "idle" /\ \A p \in ahead : CanLock(s, p)
    BY DEF Begin
  <1> DEFINE t == [op |-> op, doc |-> doc, todo |-> lines,
                   held |-> ahead, seen |-> seen, done |-> {}]
  <1>4. t \in Txn /\ t.held = ahead /\ t.op = op
    BY <1>1 DEF TypeOK, Txn
  <1> HIDE DEF t
  <1>5. /\ txn' \in [Sessions -> Txn]
        /\ \A q, r \in Sessions : q # r => txn'[q].held \cap txn'[r].held = {}
    <2>1. \A r \in Sessions \ {s} : t.held \cap txn[r].held = {}
      BY <1>3, <1>4 DEF CanLock
    <2> QED BY <2>1, <1>2, <1>4, LockKeepsExclusion DEF t
  <1>6. TypeOK'
    BY <1>1, <1>3, <1>5 DEF TypeOK
  <1>7. LocksExclude'
    <2>1. \A r \in Sessions : txn'[r] = IF r = s THEN t ELSE txn[r]
      BY <1>1, <1>2 DEF TypeOK, t
    <2>2. \A l \in Loc : pending[s][l] = <<>>
      BY <1>1, <1>3 DEF LocksExclude
    <2> QED BY <1>1, <1>3, <1>4, <1>5, <2>1, <2>2 DEF LocksExclude
  <1>8. LedgerChain' /\ PendingContinues'
    BY <1>1, <1>3 DEF LedgerChain, PendingContinues
  <1> QED BY <1>6, <1>7, <1>8 DEF LedgerInv

\* Ending a request, either way, drops its locks and its private writes.
LEMMA EndFacts ==
    ASSUME LedgerInv, NEW s \in Sessions, End(s)
    PROVE  /\ txn' \in [Sessions -> Txn]
           /\ pending' \in [Sessions -> [Loc -> Seq(Movement)]]
           /\ \A r \in Sessions : txn'[r] = IF r = s THEN Idle ELSE txn[r]
           /\ \A r \in Sessions, l \in Loc :
                 pending'[r][l] = IF r = s THEN <<>> ELSE pending[r][l]
           /\ LocksExclude'
  <1>1. TypeOK /\ LocksExclude
    BY DEF LedgerInv
  <1>2. /\ Idle \in Txn /\ Idle.held = {} /\ Idle.todo = <<>>
    <2>1. <<>> \in Seq(Line)
      OBVIOUS
    <2> QED BY <2>1 DEF Idle, Txn, Ops
  <1>3. NothingPending \in [Loc -> Seq(Movement)] /\ \A l \in Loc : NothingPending[l] = <<>>
    <2>1. <<>> \in Seq(Movement)
      OBVIOUS
    <2> QED BY <2>1 DEF NothingPending
  <1>4. /\ txn' \in [Sessions -> Txn]
        /\ \A r \in Sessions : txn'[r] = IF r = s THEN Idle ELSE txn[r]
    BY <1>1, <1>2 DEF End, TypeOK
  <1>5. /\ pending' \in [Sessions -> [Loc -> Seq(Movement)]]
        /\ \A r \in Sessions, l \in Loc :
              pending'[r][l] = IF r = s THEN <<>> ELSE pending[r][l]
    BY <1>1, <1>3 DEF End, TypeOK
  <1>6. LocksExclude'
    <2>1. \A q, r \in Sessions : q # r => txn'[q].held \cap txn'[r].held = {}
      <3> SUFFICES ASSUME NEW q \in Sessions, NEW r \in Sessions, q # r
                   PROVE  txn'[q].held \cap txn'[r].held = {}
        OBVIOUS
      <3>1. txn[q].held \cap txn[r].held = {}
        BY <1>1 DEF LocksExclude
      <3> QED BY <3>1, <1>2, <1>4
    <2>2. \A r \in Sessions, l \in Loc : pending'[r][l] # <<>> =>
             r # s /\ txn'[r] = txn[r] /\ pending[r][l] # <<>>
      BY <1>4, <1>5
    <2>3. \A r \in Sessions, l \in Loc : pending'[r][l] # <<>> =>
             ProductOf[l[2]] \in txn'[r].held /\ txn'[r].op # "idle"
      BY <2>2, <1>1 DEF LocksExclude
    <2>4. \A r \in Sessions : txn'[r].todo # <<>> => txn'[r].op # "idle"
      <3> SUFFICES ASSUME NEW r \in Sessions, txn'[r].todo # <<>>
                   PROVE  txn'[r].op # "idle"
        OBVIOUS
      <3>1. r # s /\ txn'[r] = txn[r]
        BY <1>2, <1>4
      <3> QED BY <3>1, <1>1 DEF LocksExclude
    <2> QED BY <2>1, <2>3, <2>4 DEF LocksExclude
  <1> QED BY <1>4, <1>5, <1>6

LEMMA RollbackKeepsInv ==
    ASSUME LedgerInv, NEW s \in Sessions, Rollback(s)
    PROVE  LedgerInv'
  <1>1. TypeOK /\ LocksExclude /\ LedgerChain /\ PendingContinues
    BY DEF LedgerInv
  <1>2. /\ End(s)
        /\ level' = level /\ stocked' = stocked /\ hist' = hist
        /\ policy' = policy /\ relaxed' = relaxed
    BY DEF Rollback
  <1>3. /\ txn' \in [Sessions -> Txn]
        /\ pending' \in [Sessions -> [Loc -> Seq(Movement)]]
        /\ \A r \in Sessions, l \in Loc :
              pending'[r][l] = IF r = s THEN <<>> ELSE pending[r][l]
        /\ LocksExclude'
    BY <1>2, EndFacts
  <1>4. TypeOK'
    BY <1>1, <1>2, <1>3 DEF TypeOK
  <1>5. LedgerChain'
    BY <1>1, <1>2 DEF LedgerChain
  <1>6. PendingContinues'
    <2> SUFFICES ASSUME NEW r \in Sessions, NEW l \in Loc
                 PROVE  ContinuesFrom(level'[l], pending'[r][l])
      BY DEF PendingContinues
    <2>1. CASE r = s
      <3>1. pending'[r][l] = <<>> /\ DOMAIN <<>> = {}
        BY <2>1, <1>3
      <3> QED BY <3>1 DEF ContinuesFrom
    <2>2. CASE r # s
      <3>1. pending'[r][l] = pending[r][l] /\ level'[l] = level[l]
        BY <2>2, <1>2, <1>3
      <3> QED BY <3>1, <1>1 DEF PendingContinues
    <2> QED BY <2>1, <2>2
  <1> QED BY <1>3, <1>4, <1>5, <1>6 DEF LedgerInv

\* Two sessions never have uncommitted movements at one location.
LEMMA PendingDisjoint ==
    ASSUME LedgerInv, NEW s \in Sessions, NEW r \in Sessions, NEW l \in Loc, s # r,
           pending[r][l] # <<>>
    PROVE  pending[s][l] = <<>>
  BY DEF LedgerInv, LocksExclude

LEMMA PublishKeepsInv ==
    ASSUME LedgerInv, NEW s \in Sessions, Publish(s)
    PROVE  LedgerInv'
  <1>1. TypeOK /\ LocksExclude /\ LedgerChain /\ PendingContinues
    BY DEF LedgerInv
  <1>2. /\ End(s)
        /\ level' = [l \in Loc |-> View(s, l)]
        /\ hist' = [l \in Loc |-> hist[l] \o pending[s][l]]
        /\ stocked' = stocked \cup {l \in Loc : pending[s][l] # <<>>}
        /\ policy' = policy /\ relaxed' = relaxed
    BY DEF Publish
  <1>3. /\ txn' \in [Sessions -> Txn]
        /\ pending' \in [Sessions -> [Loc -> Seq(Movement)]]
        /\ \A r \in Sessions, l \in Loc :
              pending'[r][l] = IF r = s THEN <<>> ELSE pending[r][l]
        /\ LocksExclude'
    BY <1>2, EndFacts
  <1>4. ASSUME NEW l \in Loc
        PROVE  /\ level'[l] = LastBalance(level[l], pending[s][l])
               /\ level'[l] \in Int
               /\ hist'[l] \in Seq(Movement)
               /\ Chained(hist'[l])
               /\ level'[l] = Balance(hist'[l])
    <2>1. /\ View(s, l) \in Int
          /\ View(s, l) = LastBalance(level[l], pending[s][l])
          /\ pending[s][l] \in Seq(Movement)
      BY <1>1, TypedView
    <2>2. hist[l] \in Seq(Movement) /\ Chained(hist[l]) /\ level[l] = Balance(hist[l])
      BY <1>1 DEF TypeOK, LedgerChain
    <2>3. ContinuesFrom(Balance(hist[l]), pending[s][l])
      BY <1>1, <2>2 DEF PendingContinues
    <2>4. /\ hist[l] \o pending[s][l] \in Seq(Movement)
          /\ Chained(hist[l] \o pending[s][l])
          /\ Balance(hist[l] \o pending[s][l]) = LastBalance(Balance(hist[l]), pending[s][l])
      BY <2>1, <2>2, <2>3, ChainsJoin
    <2>5. level'[l] = View(s, l) /\ hist'[l] = hist[l] \o pending[s][l]
      BY <1>2
    <2> QED BY <2>1, <2>2, <2>4, <2>5
  <1>5. TypeOK'
    <2>1. level' \in [Loc -> Int] /\ hist' \in [Loc -> Seq(Movement)]
      BY <1>2, <1>4
    <2> QED BY <2>1, <1>1, <1>2, <1>3 DEF TypeOK
  <1>6. LedgerChain'
    BY <1>4 DEF LedgerChain
  <1>7. PendingContinues'
    <2> SUFFICES ASSUME NEW r \in Sessions, NEW l \in Loc
                 PROVE  ContinuesFrom(level'[l], pending'[r][l])
      BY DEF PendingContinues
    <2>1. CASE pending'[r][l] = <<>>
      <3>1. DOMAIN <<>> = {}
        OBVIOUS
      <3> QED BY <2>1, <3>1 DEF ContinuesFrom
    <2>2. CASE pending'[r][l] # <<>>
      <3>1. r # s /\ pending'[r][l] = pending[r][l] /\ pending[r][l] # <<>>
        BY <2>2, <1>3
      <3>2. pending[s][l] = <<>>
        BY <3>1, PendingDisjoint
      <3>3. level'[l] = level[l]
        BY <3>2, <1>4 DEF LastBalance
      <3> QED BY <3>1, <3>3, <1>1 DEF PendingContinues
    <2> QED BY <2>1, <2>2
  <1> QED BY <1>3, <1>5, <1>6, <1>7 DEF LedgerInv

LEMMA SettingsKeepInv ==
    ASSUME LedgerInv, AssignLocation \/ SetPolicy
    PROVE  LedgerInv'
  <1>1. CASE AssignLocation
    BY <1>1, StockConstants DEF AssignLocation, LedgerInv, TypeOK, LocksExclude,
       LedgerChain, PendingContinues, Loc
  <1>2. CASE SetPolicy
    BY <1>2 DEF SetPolicy, LedgerInv, TypeOK, LocksExclude, LedgerChain, PendingContinues
  <1> QED BY <1>1, <1>2

\* The requests of other components carry typed lines and lock products only.
LEMMA PostingsTyped ==
    ASSUME NEW p \in Postings
    PROVE  /\ p.lines \in Seq(Line) /\ p.op \in Ops \ {"idle"}
           /\ {ProductOf[p.lines[k].item] : k \in DOMAIN p.lines} \in SUBSET Products
           /\ p.lines # <<>> => {ProductOf[p.lines[1].item]} \in SUBSET Products
  <1>1. p \in Posting
    BY StockConstants
  <1>2. p.lines \in Seq(Line) /\ p.op \in Ops \ {"idle"}
    BY <1>1 DEF Posting, Ops
  <1>3. \A k \in DOMAIN p.lines : p.lines[k] \in Line
    BY <1>2
  <1>4. \A k \in DOMAIN p.lines : ProductOf[p.lines[k].item] \in Products
    BY <1>3, StockConstants DEF Line
  <1>5. p.lines # <<>> => 1 \in DOMAIN p.lines
    BY <1>2
  <1> QED BY <1>2, <1>4, <1>5

LEMMA StartKeepsInv ==
    ASSUME LedgerInv, NEW s \in Sessions, StartPosting(s) \/ StartOpening(s)
    PROVE  LedgerInv'
  <1>1. CASE StartPosting(s)
    <2> DEFINE Ahead(p) == IF p.ahead
                           THEN {ProductOf[p.lines[k].item] : k \in DOMAIN p.lines} ELSE {}
    <2>1. PICK p \in Postings : Begin(s, p.op, NoDoc, p.lines, Ahead(p))
      BY <1>1 DEF StartPosting
    <2>2. Ahead(p) \in SUBSET Products /\ p.lines \in Seq(Line) /\ p.op \in Ops \ {"idle"}
      BY PostingsTyped
    <2> HIDE DEF Ahead
    <2> QED BY <2>1, <2>2, BeginKeepsInv
  <1>2. CASE StartOpening(s)
    <2>1. PICK p \in Postings :
             p.lines # <<>> /\ Begin(s, p.op, NoDoc, p.lines, {ProductOf[p.lines[1].item]})
      BY <1>2 DEF StartOpening
    <2> QED BY <2>1, PostingsTyped, BeginKeepsInv
  <1> QED BY <1>1, <1>2

LEMMA StutterKeepsInv ==
    ASSUME LedgerInv, UNCHANGED ledgerVars
    PROVE  LedgerInv'
  BY DEF LedgerInv, ledgerVars, TypeOK, LocksExclude, LedgerChain, PendingContinues

LEMMA NextKeepsInv ==
    ASSUME LedgerInv, [NextLedger]_ledgerVars
    PROVE  LedgerInv'
  <1>1. CASE UNCHANGED ledgerVars
    BY <1>1, StutterKeepsInv
  <1>2. CASE AssignLocation \/ SetPolicy
    BY <1>2, SettingsKeepInv
  <1>3. ASSUME NEW s \in Sessions, StartPosting(s) \/ StartOpening(s)
        PROVE  LedgerInv'
    BY <1>3, StartKeepsInv
  <1>4. ASSUME NEW s \in Sessions, RecordMovement(s)
        PROVE  LedgerInv'
    BY <1>4, MoveKeepsInv
  <1>5. ASSUME NEW s \in Sessions, SkipImportRow(s)
        PROVE  LedgerInv'
    BY <1>5, SkipKeepsInv
  <1>6. ASSUME NEW s \in Sessions, Refuse(s) \/ DeadlockVictim(s) \/ Crash(s)
        PROVE  LedgerInv'
    BY <1>6, RollbackKeepsInv DEF Refuse, DeadlockVictim, Crash
  <1>7. ASSUME NEW s \in Sessions, Commit(s)
        PROVE  LedgerInv'
    BY <1>7, PublishKeepsInv DEF Commit
  <1> QED BY <1>1, <1>2, <1>3, <1>4, <1>5, <1>6, <1>7 DEF NextLedger

\* The inductive invariant holds in every state of the ledger, whatever requests
\* record_movement serves and however their transactions interleave.
THEOREM LedgerInvariant == Spec => []LedgerInv
  <1>1. InitLedger => LedgerInv
    BY InitLedgerInv
  <1>2. LedgerInv /\ [NextLedger]_ledgerVars => LedgerInv'
    BY NextKeepsInv
  <1> QED BY <1>1, <1>2, PTL DEF Spec

\* The variables of StockLedger keep their types.
THEOREM LedgerTypeCorrect == Spec => []TypeOK
  <1>1. LedgerInv => TypeOK
    BY DEF LedgerInv
  <1> QED BY <1>1, LedgerInvariant, PTL

\* The level cached by record_movement is the balance of an unbroken ledger.
THEOREM LevelMatchesLedger == Spec => []LedgerChain
  <1>1. LedgerInv => LedgerChain
    BY DEF LedgerInv
  <1> QED BY <1>1, LedgerInvariant, PTL

-----------------------------------------------------------------------------
(* No overselling                                                          *)
(*                                                                         *)
(* A request asks for the policy before it takes a balance below zero, and *)
(* what it may do without asking is a count correction.  The argument has  *)
(* to be about what a session sees, not about the committed level: that is *)
(* what record_movement compares, and it becomes the level at the commit.  *)

HasCount(h) == \E n \in DOMAIN h : h[n].type = "count"

PolicyKept == ~relaxed =>
    /\ policy = "block"
    /\ \A s \in Sessions : txn[s].seen \in {"unread", "block"}

Honest(lines) == \A k \in DOMAIN lines : lines[k].enforce \/ lines[k].type = "count"
LinesHonest == \A s \in Sessions : Honest(txn[s].todo)

SeenCovered == ~relaxed => \A l \in Loc : l[2] \notin MeterParents =>
    /\ level[l] < 0 => HasCount(hist[l])
    /\ \A s \in Sessions :
          View(s, l) < 0 => HasCount(hist[l]) \/ HasCount(pending[s][l])

OversellInv == LedgerInv /\ PolicyKept /\ LinesHonest /\ SeenCovered

LEMMA CountsJoin ==
    ASSUME NEW h \in Seq(Movement), NEW p \in Seq(Movement)
    PROVE  HasCount(h) \/ HasCount(p) => HasCount(h \o p)
  <1>1. /\ Len(h) \in Nat /\ Len(p) \in Nat /\ Len(h \o p) = Len(h) + Len(p)
        /\ DOMAIN h = 1 .. Len(h) /\ DOMAIN p = 1 .. Len(p)
        /\ DOMAIN (h \o p) = 1 .. Len(h) + Len(p)
        /\ \A n \in 1 .. Len(h) : (h \o p)[n] = h[n]
        /\ \A n \in Len(h) + 1 .. Len(h) + Len(p) : (h \o p)[n] = p[n - Len(h)]
    OBVIOUS
  <1>2. ASSUME NEW n \in DOMAIN h, h[n].type = "count" PROVE HasCount(h \o p)
    <2>1. n \in DOMAIN (h \o p) /\ (h \o p)[n] = h[n]
      BY <1>1
    <2> QED BY <2>1, <1>2 DEF HasCount
  <1>3. ASSUME NEW n \in DOMAIN p, p[n].type = "count" PROVE HasCount(h \o p)
    <2>1. n + Len(h) \in DOMAIN (h \o p) /\ (h \o p)[n + Len(h)] = p[n]
      BY <1>1
    <2> QED BY <2>1, <1>3 DEF HasCount
  <1> QED BY <1>2, <1>3 DEF HasCount

LEMMA CountAppended ==
    ASSUME NEW h \in Seq(Movement), NEW e \in Movement
    PROVE  HasCount(h) \/ e.type = "count" => HasCount(Append(h, e))
  <1>1. /\ Len(h) \in Nat /\ DOMAIN h = 1 .. Len(h)
        /\ DOMAIN Append(h, e) = 1 .. Len(h) + 1
        /\ Append(h, e)[Len(h) + 1] = e
        /\ \A n \in 1 .. Len(h) : Append(h, e)[n] = h[n]
    OBVIOUS
  <1>2. ASSUME NEW n \in DOMAIN h, h[n].type = "count" PROVE HasCount(Append(h, e))
    <2>1. n \in DOMAIN Append(h, e) /\ Append(h, e)[n] = h[n]
      BY <1>1
    <2> QED BY <2>1, <1>2 DEF HasCount
  <1>3. Len(h) + 1 \in DOMAIN Append(h, e)
    BY <1>1
  <1> QED BY <1>1, <1>2, <1>3 DEF HasCount

\* record_movement below zero, while the policy has always been "block".
LEMMA MoveCovered ==
    ASSUME OversellInv, NEW s \in Sessions, RecordMovement(s), ~relaxed,
           Place(Current(s))[2] \notin MeterParents,
           View(s, Place(Current(s))) + Delta(s, Current(s)) < 0
    PROVE  \/ HasCount(hist[Place(Current(s))])
           \/ HasCount(pending[s][Place(Current(s))])
           \/ Current(s).type = "count"
  <1> DEFINE m == Current(s)
             l == Place(m)
  <1>1. TypeOK /\ txn[s].todo # <<>> /\ ~Refused(s, m)
    BY DEF OversellInv, LedgerInv, RecordMovement
  <1>2. txn[s].todo \in Seq(Line) /\ m = txn[s].todo[1] /\ 1 \in DOMAIN txn[s].todo
    BY <1>1 DEF TypeOK, Txn, Current
  <1>3. m \in Line /\ (m.enforce \/ m.type = "count")
    BY <1>2 DEF OversellInv, LinesHonest, Honest
  <1>4. l \in Loc /\ View(s, l) \in Int /\ Delta(s, m) \in Int
    BY <1>1, <1>3, LocFacts, TypedView, TypedEntry
  <1>5. PolicySeen(s) = "block"
    BY <1>1 DEF OversellInv, PolicyKept, PolicySeen
  <1>6. ~Short(s, m)
    BY <1>1, <1>5 DEF Refused
  <1> HIDE DEF m, l
  <1>7. CASE Delta(s, m) < 0
    <2>1. ~m.enforce \/ m.type \in NegativeAllowedTypes
      BY <1>6, <1>7 DEF Short, l, m
    <2> QED BY <2>1, <1>3 DEF NegativeAllowedTypes, m
  <1>8. CASE ~(Delta(s, m) < 0)
    <2>1. View(s, l) < 0
      BY <1>4, <1>8 DEF l, m
    <2> QED BY <2>1, <1>4 DEF OversellInv, SeenCovered, l, m
  <1> QED BY <1>7, <1>8

LEMMA MoveKeepsOversellInv ==
    ASSUME OversellInv, NEW s \in Sessions, RecordMovement(s)
    PROVE  OversellInv'
  <1> DEFINE m == Current(s)
             l0 == Place(m)
             e == Entry(s, m)
             seen == IF Short(s, m) THEN PolicySeen(s) ELSE txn[s].seen
             t == Advance(s, m, seen)
  <1>1. LedgerInv /\ TypeOK /\ PolicyKept /\ LinesHonest /\ SeenCovered
    BY DEF OversellInv, LedgerInv
  <1>2. /\ txn[s].todo # <<>>
        /\ pending' = [pending EXCEPT ![s][l0] = Append(@, e)]
        /\ txn' = [txn EXCEPT ![s] = t]
        /\ level' = level /\ hist' = hist /\ policy' = policy /\ relaxed' = relaxed
    BY DEF RecordMovement
  <1>3. LedgerInv'
    BY <1>1, MoveKeepsInv
  <1>4. txn[s] \in Txn /\ txn[s].todo \in Seq(Line)
    BY <1>1 DEF TypeOK, Txn
  <1>5. t.todo = Tail(txn[s].todo) /\ t.seen = seen
    BY <1>4 DEF Advance, Txn
  <1>6. \A r \in Sessions : txn'[r] = IF r = s THEN t ELSE txn[r]
    BY <1>1, <1>2 DEF TypeOK
  <1>7. PolicyKept'
    <2>1. ~relaxed => seen \in {"unread", "block"}
      BY <1>1 DEF PolicyKept, PolicySeen
    <2> QED BY <2>1, <1>1, <1>2, <1>5, <1>6 DEF PolicyKept
  <1>8. LinesHonest'
    <2>1. Honest(Tail(txn[s].todo))
      <3>1. Honest(txn[s].todo)
        BY <1>1 DEF LinesHonest
      <3>2. \A k \in DOMAIN Tail(txn[s].todo) :
               k + 1 \in DOMAIN txn[s].todo /\ Tail(txn[s].todo)[k] = txn[s].todo[k + 1]
        BY <1>2, <1>4
      <3> QED BY <3>1, <3>2 DEF Honest
    <2> QED BY <2>1, <1>1, <1>5, <1>6 DEF LinesHonest
  <1>9. m \in Line
    BY <1>2, <1>4 DEF Current
  <1>10. l0 \in Loc /\ e \in Movement /\ e.type = m.type
         /\ e.balance = View(s, l0) + Delta(s, m)
    BY <1>1, <1>9, LocFacts, TypedEntry
  <1>11. ~relaxed /\ l0[2] \notin MeterParents /\ e.balance < 0 =>
            HasCount(hist[l0]) \/ HasCount(pending[s][l0]) \/ e.type = "count"
    BY <1>10, MoveCovered
  <1> HIDE DEF m, l0, e, seen, t
  <1>12. \A r \in Sessions, l \in Loc :
            pending'[r][l] = IF r = s /\ l = l0 THEN Append(pending[s][l0], e)
                                                ELSE pending[r][l]
    BY <1>1, <1>2, <1>10 DEF TypeOK
  <1>13. SeenCovered'
    <2> SUFFICES ASSUME ~relaxed, NEW l \in Loc, l[2] \notin MeterParents
                 PROVE  /\ level[l] < 0 => HasCount(hist[l])
                        /\ \A r \in Sessions : View(r, l)' < 0 =>
                              HasCount(hist[l]) \/ HasCount(pending'[r][l])
      BY <1>2 DEF SeenCovered
    <2>1. level[l] < 0 => HasCount(hist[l])
      BY <1>1 DEF SeenCovered
    <2>2. ASSUME NEW r \in Sessions, View(r, l)' < 0
          PROVE  HasCount(hist[l]) \/ HasCount(pending'[r][l])
      <3>1. CASE r = s /\ l = l0
        <4>1. pending[s][l0] \in Seq(Movement)
          BY <1>1, <1>10 DEF TypeOK
        <4>2. pending'[r][l] = Append(pending[s][l0], e)
          BY <3>1, <1>12
        <4>3. /\ Append(pending[s][l0], e) # <<>>
              /\ Append(pending[s][l0], e)[Len(Append(pending[s][l0], e))] = e
          BY <4>1, <1>10
        <4>4. View(r, l)' = e.balance
          BY <4>2, <4>3 DEF View
        <4>5. HasCount(hist[l0]) \/ HasCount(pending[s][l0]) \/ e.type = "count"
          BY <4>4, <2>2, <3>1, <1>11
        <4> QED BY <4>1, <4>2, <4>5, <3>1, <1>10, CountAppended
      <3>2. CASE ~(r = s /\ l = l0)
        <4>1. pending'[r][l] = pending[r][l]
          BY <3>2, <1>12
        <4>2. View(r, l)' = View(r, l)
          BY <4>1, <1>2 DEF View
        <4> QED BY <4>1, <4>2, <2>2, <1>1 DEF SeenCovered
      <3> QED BY <3>1, <3>2
    <2> QED BY <2>1, <2>2
  <1> QED BY <1>3, <1>7, <1>8, <1>13 DEF OversellInv

\* Steps that write no movement: the sessions change, stock does not.
LEMMA QuietKeepsOversellInv ==
    ASSUME OversellInv, LedgerInv', LinesHonest',
           level' = level, hist' = hist, pending' = pending, relaxed' = relaxed,
           policy' = policy,
           \A r \in Sessions : txn'[r].seen \in {txn[r].seen, policy, "unread"}
    PROVE  OversellInv'
  <1>1. PolicyKept'
    BY DEF OversellInv, PolicyKept
  <1>2. \A r \in Sessions, l \in Loc : View(r, l)' = View(r, l)
    BY DEF View
  <1>3. SeenCovered'
    BY <1>2 DEF OversellInv, SeenCovered
  <1> QED BY <1>1, <1>3 DEF OversellInv

LEMMA BeginKeepsOversellInv ==
    ASSUME OversellInv, NEW s \in Sessions, NEW op \in Ops \ {"idle"},
           NEW doc \in Docs \cup {NoDoc}, NEW lines \in Seq(Line), Honest(lines),
           NEW ahead \in SUBSET Products, Begin(s, op, doc, lines, ahead)
    PROVE  OversellInv'
  <1>1. LedgerInv' /\ txn \in [Sessions -> Txn]
    BY BeginKeepsInv DEF OversellInv, LedgerInv, TypeOK
  <1>2. PICK seen \in {policy, "unread"} :
           txn' = [txn EXCEPT ![s] = [op |-> op, doc |-> doc, todo |-> lines,
                                      held |-> ahead, seen |-> seen, done |-> {}]]
    BY DEF Begin
  <1>3. \A r \in Sessions : /\ txn'[r].todo = IF r = s THEN lines ELSE txn[r].todo
                            /\ txn'[r].seen = IF r = s THEN seen ELSE txn[r].seen
    BY <1>1, <1>2
  <1>4. LinesHonest'
    BY <1>3 DEF OversellInv, LinesHonest
  <1>5. /\ level' = level /\ hist' = hist /\ pending' = pending /\ relaxed' = relaxed
        /\ policy' = policy
    BY DEF Begin
  <1> QED BY <1>1, <1>3, <1>4, <1>5, QuietKeepsOversellInv

LEMMA SkipKeepsOversellInv ==
    ASSUME OversellInv, NEW s \in Sessions, SkipImportRow(s)
    PROVE  OversellInv'
  <1>1. LedgerInv' /\ txn \in [Sessions -> Txn]
    BY SkipKeepsInv DEF OversellInv, LedgerInv, TypeOK
  <1>2. /\ txn' = [txn EXCEPT ![s] = Advance(s, Current(s), txn[s].seen)]
        /\ txn[s].todo # <<>>
        /\ level' = level /\ hist' = hist /\ pending' = pending /\ relaxed' = relaxed
        /\ policy' = policy
    BY DEF SkipImportRow
  <1>3. txn[s] \in Txn /\ txn[s].todo \in Seq(Line)
    BY <1>1 DEF Txn
  <1>4. \A r \in Sessions :
           /\ txn'[r].todo = IF r = s THEN Tail(txn[s].todo) ELSE txn[r].todo
           /\ txn'[r].seen = txn[r].seen
    BY <1>1, <1>2, <1>3 DEF Advance, Txn
  <1>5. Honest(Tail(txn[s].todo))
    <2>1. Honest(txn[s].todo)
      BY DEF OversellInv, LinesHonest
    <2>2. \A k \in DOMAIN Tail(txn[s].todo) :
             k + 1 \in DOMAIN txn[s].todo /\ Tail(txn[s].todo)[k] = txn[s].todo[k + 1]
      BY <1>2, <1>3
    <2> QED BY <2>1, <2>2 DEF Honest
  <1>6. LinesHonest'
    BY <1>4, <1>5 DEF OversellInv, LinesHonest
  <1> QED BY <1>1, <1>2, <1>4, <1>6, QuietKeepsOversellInv

\* After a request ends, its session sees the level again.
LEMMA EndKeepsOversellInv ==
    ASSUME OversellInv, NEW s \in Sessions, End(s), LedgerInv',
           relaxed' = relaxed, policy' = policy,
           \A l \in Loc : /\ level'[l] = View(s, l) \/ level'[l] = level[l]
                          /\ pending[s][l] = <<>> => level'[l] = level[l]
                          /\ HasCount(hist[l]) => HasCount(hist'[l]),
           \A l \in Loc : level'[l] = level[l] \/
                             (HasCount(pending[s][l]) => HasCount(hist'[l]))
    PROVE  OversellInv'
  <1>1. LedgerInv
    BY DEF OversellInv
  <1>2. /\ \A r \in Sessions : txn'[r] = IF r = s THEN Idle ELSE txn[r]
        /\ \A r \in Sessions, l \in Loc :
              pending'[r][l] = IF r = s THEN <<>> ELSE pending[r][l]
    BY <1>1, EndFacts
  <1>3. PolicyKept'
    BY <1>2 DEF OversellInv, PolicyKept, Idle
  <1>4. LinesHonest'
    <2>1. DOMAIN Idle.todo = {}
      BY DEF Idle
    <2> QED BY <2>1, <1>2 DEF OversellInv, LinesHonest, Honest
  <1>5. SeenCovered'
    <2> SUFFICES ASSUME ~relaxed, NEW l \in Loc, l[2] \notin MeterParents
                 PROVE  /\ level'[l] < 0 => HasCount(hist'[l])
                        /\ \A r \in Sessions : View(r, l)' < 0 =>
                              HasCount(hist'[l]) \/ HasCount(pending'[r][l])
      BY DEF SeenCovered
    <2>1. level[l] < 0 => HasCount(hist[l])
      BY DEF OversellInv, SeenCovered
    <2>2. View(s, l) < 0 => HasCount(hist[l]) \/ HasCount(pending[s][l])
      BY DEF OversellInv, SeenCovered
    <2>3. level'[l] < 0 => HasCount(hist'[l])
      BY <2>1, <2>2
    <2>4. ASSUME NEW r \in Sessions, View(r, l)' < 0
          PROVE  HasCount(hist'[l]) \/ HasCount(pending'[r][l])
      <3>1. CASE pending'[r][l] = <<>>
        BY <3>1, <2>3, <2>4 DEF View
      <3>2. CASE pending'[r][l] # <<>>
        <4>1. r # s /\ pending'[r][l] = pending[r][l]
          BY <3>2, <1>2
        <4>2. pending[s][l] = <<>>
          BY <4>1, <3>2, <1>1, PendingDisjoint
        <4>3. View(r, l)' = View(r, l)
          BY <4>1, <4>2, <3>2 DEF View
        <4>4. HasCount(hist[l]) \/ HasCount(pending[r][l])
          BY <4>3, <2>4 DEF OversellInv, SeenCovered
        <4> QED BY <4>1, <4>4
      <3> QED BY <3>1, <3>2
    <2> QED BY <2>3, <2>4
  <1> QED BY <1>3, <1>4, <1>5 DEF OversellInv

LEMMA RollbackKeepsOversellInv ==
    ASSUME OversellInv, NEW s \in Sessions, Rollback(s)
    PROVE  OversellInv'
  <1>1. LedgerInv'
    BY RollbackKeepsInv DEF OversellInv
  <1>2. /\ End(s) /\ level' = level /\ hist' = hist
        /\ policy' = policy /\ relaxed' = relaxed
    BY DEF Rollback
  <1> QED BY <1>1, <1>2, EndKeepsOversellInv

LEMMA PublishKeepsOversellInv ==
    ASSUME OversellInv, NEW s \in Sessions, Publish(s)
    PROVE  OversellInv'
  <1>1. LedgerInv' /\ TypeOK
    BY PublishKeepsInv DEF OversellInv, LedgerInv
  <1>2. /\ End(s)
        /\ \A l \in Loc : level'[l] = View(s, l) /\ hist'[l] = hist[l] \o pending[s][l]
        /\ policy' = policy /\ relaxed' = relaxed
    BY DEF Publish
  <1>3. ASSUME NEW l \in Loc
        PROVE  /\ pending[s][l] = <<>> => level'[l] = level[l]
               /\ HasCount(hist[l]) \/ HasCount(pending[s][l]) => HasCount(hist'[l])
    <2>1. hist[l] \in Seq(Movement) /\ pending[s][l] \in Seq(Movement)
      BY <1>1 DEF TypeOK
    <2>2. pending[s][l] = <<>> => View(s, l) = level[l]
      BY DEF View
    <2> QED BY <2>1, <2>2, <1>2, CountsJoin
  <1> QED BY <1>1, <1>2, <1>3, EndKeepsOversellInv

LEMMA SettingsKeepOversellInv ==
    ASSUME OversellInv, AssignLocation \/ SetPolicy
    PROVE  OversellInv'
  <1>1. LedgerInv'
    BY SettingsKeepInv DEF OversellInv
  <1>2. CASE AssignLocation
    <2>1. /\ level' = level /\ hist' = hist /\ pending' = pending /\ relaxed' = relaxed
          /\ policy' = policy /\ txn' = txn
      BY <1>2 DEF AssignLocation
    <2>2. LinesHonest'
      BY <2>1 DEF OversellInv, LinesHonest
    <2> QED BY <1>1, <2>1, <2>2, QuietKeepsOversellInv
  <1>3. CASE SetPolicy
    <2>1. PICK p \in Policies \ {policy} :
             /\ policy' = p /\ relaxed' = (relaxed \/ p # "block")
             /\ level' = level /\ hist' = hist /\ pending' = pending /\ txn' = txn
      BY <1>3 DEF SetPolicy
    <2>2. relaxed \in BOOLEAN /\ relaxed' \in BOOLEAN
      BY <1>1 DEF OversellInv, LedgerInv, TypeOK
    <2>3. ~relaxed => policy = "block"
      BY DEF OversellInv, PolicyKept
    <2>4. relaxed'
      BY <2>1, <2>2, <2>3
    <2> QED BY <1>1, <2>1, <2>4 DEF OversellInv, PolicyKept, LinesHonest, SeenCovered
  <1> QED BY <1>2, <1>3

LEMMA NextKeepsOversellInv ==
    ASSUME OversellInv, [NextLedger]_ledgerVars
    PROVE  OversellInv'
  <1>1. CASE UNCHANGED ledgerVars
    <2>1. LedgerInv'
      BY <1>1, StutterKeepsInv DEF OversellInv
    <2>2. /\ level' = level /\ hist' = hist /\ pending' = pending /\ relaxed' = relaxed
          /\ policy' = policy /\ txn' = txn
      BY <1>1 DEF ledgerVars
    <2>3. LinesHonest'
      BY <2>2 DEF OversellInv, LinesHonest
    <2> QED BY <2>1, <2>2, <2>3, QuietKeepsOversellInv
  <1>2. CASE AssignLocation \/ SetPolicy
    BY <1>2, SettingsKeepOversellInv
  <1>3. ASSUME NEW s \in Sessions, StartPosting(s) PROVE OversellInv'
    <2> DEFINE Ahead(p) == IF p.ahead
                           THEN {ProductOf[p.lines[k].item] : k \in DOMAIN p.lines} ELSE {}
    <2>1. PICK p \in Postings : Begin(s, p.op, NoDoc, p.lines, Ahead(p))
      BY <1>3 DEF StartPosting
    <2>2. Ahead(p) \in SUBSET Products /\ p.lines \in Seq(Line) /\ p.op \in Ops \ {"idle"}
      BY PostingsTyped
    <2>3. Honest(p.lines)
      BY StockConstants DEF Honest
    <2> HIDE DEF Ahead
    <2> QED BY <2>1, <2>2, <2>3, BeginKeepsOversellInv
  <1>4. ASSUME NEW s \in Sessions, StartOpening(s) PROVE OversellInv'
    <2>1. PICK p \in Postings :
             p.lines # <<>> /\ Begin(s, p.op, NoDoc, p.lines, {ProductOf[p.lines[1].item]})
      BY <1>4 DEF StartOpening
    <2>2. Honest(p.lines)
      BY StockConstants DEF Honest
    <2> QED BY <2>1, <2>2, PostingsTyped, BeginKeepsOversellInv
  <1>5. ASSUME NEW s \in Sessions, RecordMovement(s) PROVE OversellInv'
    BY <1>5, MoveKeepsOversellInv
  <1>6. ASSUME NEW s \in Sessions, SkipImportRow(s) PROVE OversellInv'
    BY <1>6, SkipKeepsOversellInv
  <1>7. ASSUME NEW s \in Sessions, Refuse(s) \/ DeadlockVictim(s) \/ Crash(s)
        PROVE  OversellInv'
    BY <1>7, RollbackKeepsOversellInv DEF Refuse, DeadlockVictim, Crash
  <1>8. ASSUME NEW s \in Sessions, Commit(s) PROVE OversellInv'
    BY <1>8, PublishKeepsOversellInv DEF Commit
  <1> QED BY <1>1, <1>2, <1>3, <1>4, <1>5, <1>6, <1>7, <1>8 DEF NextLedger

LEMMA InitOversellInv ==
    ASSUME InitLedger PROVE OversellInv
  <1>1. LedgerInv
    BY InitLedgerInv
  <1>2. PolicyKept
    BY DEF InitLedger, PolicyKept, Idle
  <1>3. LinesHonest
    <2>1. DOMAIN Idle.todo = {}
      BY DEF Idle
    <2> QED BY <2>1 DEF InitLedger, LinesHonest, Honest
  <1>4. SeenCovered
    <2> SUFFICES ASSUME NEW l \in Loc, l[2] \notin MeterParents
                 PROVE  level[l] = 0 /\ \A s \in Sessions : View(s, l) = 0
      BY DEF SeenCovered
    <2>1. level[l] = 0
      BY DEF InitLedger
    <2>2. \A s \in Sessions : pending[s][l] = <<>>
      BY DEF InitLedger, NothingPending
    <2> QED BY <2>1, <2>2 DEF View
  <1> QED BY <1>1, <1>2, <1>3, <1>4 DEF OversellInv

\* While the policy has always been "block", whatever sales, transfers,
\* adjustments and imports run at once, record_movement lets an item's level go
\* below zero only after a count correction was posted for it.
THEOREM NeverOversold == Spec => []NoOversell
  <1>1. InitLedger => OversellInv
    BY InitOversellInv
  <1>2. OversellInv /\ [NextLedger]_ledgerVars => OversellInv'
    BY NextKeepsOversellInv
  <1>3. OversellInv => NoOversell
    BY DEF OversellInv, SeenCovered, NoOversell, HasCount
  <1> QED BY <1>1, <1>2, <1>3, PTL DEF Spec

-----------------------------------------------------------------------------
(* Documents                                                               *)
(*                                                                         *)
(* Everything above holds as well where the documents of StockDocuments    *)
(* are at work, because they post through record_movement.  Besides, the   *)
(* row lock of a document keeps its status as the request found it.        *)

TransferOps == {"dispatch", "receive", "cancel"}

DocTypes ==
    /\ transfer \in [Transfers -> Transfer \cup {NoDoc}]
    /\ adjustment \in [Adjustments -> Adjustment \cup {NoDoc}]
    /\ draft \in [Sessions -> Adjustment \cup {NoDoc}]
    /\ count \in [Counts -> Count \cup {NoDoc}]
    /\ form \in [Sessions -> Form \cup {NoDoc}]
    /\ \A s \in Sessions : form[s] # NoDoc =>
          /\ count[form[s].count] # NoDoc
          /\ DOMAIN form[s].values \subseteq DOMAIN count[form[s].count].expected
    /\ \A c \in Counts : count[c] # NoDoc =>
          /\ IsFiniteSet(DOMAIN count[c].counted)
          /\ DOMAIN count[c].counted \subseteq DOMAIN count[c].expected

\* What a request that holds document d has found.
Fits(op, d) ==
    /\ op \in {"post", "import", "opening", "idle"} => d = NoDoc
    /\ op = "dispatch" => d \in Transfers /\ StatusOf(transfer[d]) = "draft"
    /\ op = "receive" => d \in Transfers /\ StatusOf(transfer[d]) = "dispatched"
    /\ op = "cancel" => d \in Transfers /\ StatusOf(transfer[d]) \in {"draft", "dispatched"}
    /\ op = "adjust" => d \in Adjustments /\ adjustment[d] = NoDoc
    /\ op = "approve" => d \in Adjustments /\ StatusOf(adjustment[d]) = "pending"
    /\ op = "count" => d \in Counts /\ count[d] # NoDoc
RequestsFit == \A s \in Sessions : Fits(txn[s].op, txn[s].doc)

DocsApart == \A s, r \in Sessions : s # r /\ txn[s].doc # NoDoc => txn[r].doc # txn[s].doc

\* What a request posts refers to the document it holds.
OwnLines(d, lines) == \A k \in DOMAIN lines : lines[k].ref.doc = d
RefsOwn == \A s \in Sessions :
    /\ OwnLines(txn[s].doc, txn[s].todo)
    /\ \A l \in Loc : OwnLines(txn[s].doc, pending[s][l])

DocsInv == OversellInv /\ DocTypes /\ RequestsFit /\ DocsApart /\ RefsOwn

LEMMA DocSets ==
    /\ DOMAIN NewStatus = TransferOps
    /\ NoDoc \notin Transfers /\ NoDoc \notin Adjustments /\ NoDoc \notin Counts
    /\ Transfers \cap Adjustments = {} /\ Transfers \cap Counts = {}
    /\ Adjustments \cap Counts = {}
    /\ NoDoc \notin Transfer /\ NoDoc \notin Adjustment /\ NoDoc \notin Count
    /\ NoDoc \notin Form
  <1>1. DOMAIN NewStatus = TransferOps
    BY DEF NewStatus, TransferOps
  <1> QED BY <1>1, StockConstants, DocumentConstants, NothingIsNoDocument

LEMMA TypedLine ==
    ASSUME NEW row, row.item \in Items, NEW w \in Warehouses, NEW type \in MovementTypes,
           NEW qty \in Int, NEW d \in Docs, NEW leg \in Legs, NEW k \in Nat
    PROVE  LineOf(row, w, type, qty, TRUE, d, leg, k) \in Line
  <1>1. [doc |-> d, leg |-> leg, row |-> k] \in Refs
    BY DEF Refs
  <1> QED BY <1>1 DEF LineOf, Line

LEMMA TypedCorrection ==
    ASSUME NEW row, row.item \in Items, NEW w \in Warehouses, NEW qty \in Int, NEW d \in Docs
    PROVE  LineOf(row, w, "count", qty, FALSE, d, "count", 0) \in Line
  <1>1. [doc |-> d, leg |-> "count", row |-> 0] \in Refs
    BY DEF Refs, Legs
  <1> QED BY <1>1 DEF LineOf, Line, MovementTypes

LEMMA TypedRows ==
    ASSUME NEW rows \in Rows
    PROVE  /\ rows \in Seq(Row) /\ Len(rows) \in Nat /\ DOMAIN rows = 1 .. Len(rows)
           /\ \A k \in DOMAIN rows : rows[k].item \in Items /\ rows[k].qty \in Int
  <1>1. rows \in Seq(Row)
    BY DocumentConstants
  <1>2. DOMAIN rows = 1 .. Len(rows) /\ Len(rows) \in Nat
    BY <1>1
  <1>3. \A k \in DOMAIN rows : rows[k] \in Row
    BY <1>1, <1>2
  <1> QED BY <1>1, <1>2, <1>3 DEF Row

\* The lines of a transfer.
LEMMA TypedTransferLines ==
    ASSUME DocTypes, NEW t \in Transfers, transfer[t] # NoDoc, NEW w \in Warehouses,
           NEW type \in MovementTypes, NEW sign \in {-1, 1}, NEW leg \in Legs
    PROVE  /\ TransferLines(t, w, type, sign, leg) \in Seq(Line)
           /\ Honest(TransferLines(t, w, type, sign, leg))
           /\ OwnLines(t, TransferLines(t, w, type, sign, leg))
           /\ Len(TransferLines(t, w, type, sign, leg)) = Len(transfer[t].rows)
           /\ DOMAIN TransferLines(t, w, type, sign, leg) = DOMAIN transfer[t].rows
           /\ \A k \in DOMAIN transfer[t].rows :
                 LET line == TransferLines(t, w, type, sign, leg)[k]
                 IN  /\ line.qty = sign * transfer[t].rows[k].qty
                     /\ line.mode = "by"
                     /\ Place(line) = <<w, transfer[t].rows[k].item>>
                     /\ line.ref = [doc |-> t, leg |-> leg, row |-> k]
  <1> DEFINE rows == transfer[t].rows
             L(k) == LineOf(rows[k], w, type, sign * rows[k].qty, TRUE, t, leg, k)
             lines == TransferLines(t, w, type, sign, leg)
  <1>1. rows \in Rows
    BY DEF DocTypes, Transfer
  <1>2. /\ Len(rows) \in Nat /\ DOMAIN rows = 1 .. Len(rows)
        /\ \A k \in DOMAIN rows : rows[k].item \in Items /\ rows[k].qty \in Int
    BY <1>1, TypedRows
  <1>3. ASSUME NEW k \in DOMAIN rows
        PROVE  /\ L(k) \in Line /\ L(k).enforce /\ L(k).mode = "by"
               /\ L(k).qty = sign * rows[k].qty
               /\ Place(L(k)) = <<w, rows[k].item>>
               /\ L(k).ref = [doc |-> t, leg |-> leg, row |-> k]
    <2>1. rows[k].item \in Items /\ rows[k].qty \in Int /\ k \in Nat /\ t \in Docs
      BY <1>2, DocumentConstants
    <2>2. sign * rows[k].qty \in Int
      BY <2>1
    <2> HIDE DEF rows
    <2>3. LineOf(rows[k], w, type, sign * rows[k].qty, TRUE, t, leg, k) \in Line
      BY <2>1, <2>2, TypedLine
    <2> QED BY <2>3 DEF LineOf, Place
  <1>4. lines = [k \in 1 .. Len(rows) |-> L(k)]
    BY DEF TransferLines
  <1> HIDE DEF rows, lines, L
  <1>5. DOMAIN lines = 1 .. Len(rows) /\ \A k \in 1 .. Len(rows) : lines[k] = L(k)
    BY <1>4
  <1>6. lines \in Seq(Line) /\ Len(lines) = Len(rows) /\ DOMAIN lines = DOMAIN rows
        /\ \A k \in DOMAIN rows : lines[k] = L(k)
    <2>1. \A k \in 1 .. Len(rows) : L(k) \in Line
      BY <1>2, <1>3
    <2>2. lines \in Seq(Line) /\ Len(lines) = Len(rows)
      BY <2>1, <1>2, <1>4
    <2> QED BY <2>2, <1>2, <1>5
  <1>7. ASSUME NEW k \in DOMAIN rows
        PROVE  /\ lines[k].qty = sign * rows[k].qty
               /\ lines[k].mode = "by"
               /\ Place(lines[k]) = <<w, rows[k].item>>
               /\ lines[k].ref = [doc |-> t, leg |-> leg, row |-> k]
    BY <1>3, <1>6
  <1>8. \A k \in DOMAIN lines : lines[k].enforce /\ lines[k].ref.doc = t
    <2> SUFFICES ASSUME NEW k \in DOMAIN rows
                 PROVE  lines[k].enforce /\ lines[k].ref.doc = t
      BY <1>6
    <2>1. lines[k] = L(k)
      BY <1>6
    <2> QED BY <2>1 DEF L, LineOf
  <1>9. Honest(lines) /\ OwnLines(t, lines)
    BY <1>8 DEF Honest, OwnLines
  <1> QED BY <1>6, <1>7, <1>9 DEF rows, lines

\* Those of an adjustment.
LEMMA TypedAdjustmentLines ==
    ASSUME NEW a \in Adjustment, NEW x \in Adjustments, NEW order \in InOrder(WithChange(a))
    PROVE  /\ AdjustmentLines(x, a, order) \in Seq(Line)
           /\ Honest(AdjustmentLines(x, a, order))
           /\ OwnLines(x, AdjustmentLines(x, a, order))
           /\ ProductsOf(a.rows) \in SUBSET Products
  <1> DEFINE rows == a.rows
             K == WithChange(a)
             type(k) == IF rows[k].qty > 0 THEN "adjust_in" ELSE AdjustMovement(a.reason)
             L(k) == LineOf(rows[k], a.wh, type(k), rows[k].qty, TRUE, x, "adjust", k)
             lines == AdjustmentLines(x, a, order)
  <1>1. rows \in Rows /\ a.wh \in Warehouses
    BY DEF Adjustment
  <1>2. /\ Len(rows) \in Nat /\ DOMAIN rows = 1 .. Len(rows)
        /\ \A k \in DOMAIN rows : rows[k].item \in Items /\ rows[k].qty \in Int
    BY <1>1, TypedRows
  <1>3. K \subseteq 1 .. Len(rows) /\ IsFiniteSet(K)
    <2>1. K \subseteq 1 .. Len(rows)
      BY <1>2 DEF WithChange
    <2>2. IsFiniteSet(1 .. Len(rows))
      BY <1>2, FS_Interval
    <2> QED BY <2>1, <2>2, FS_Subset
  <1>4. Cardinality(K) \in Nat
    BY <1>3, FS_CardinalityType
  <1>5. order \in [1 .. Cardinality(K) -> K]
    BY DEF InOrder
  <1>6. ASSUME NEW k \in K
        PROVE  L(k) \in Line /\ L(k).enforce /\ L(k).ref.doc = x
    <2>1. k \in DOMAIN rows /\ k \in Nat
      BY <1>2, <1>3
    <2>2. type(k) \in MovementTypes
      BY DEF AdjustMovement, MovementTypes
    <2>3. x \in Docs /\ "adjust" \in Legs
      BY DocumentConstants DEF Legs
    <2>4. rows[k].item \in Items /\ rows[k].qty \in Int
      BY <1>2, <2>1
    <2> HIDE DEF type, rows
    <2>5. L(k) \in Line
      BY <1>1, <2>1, <2>2, <2>3, <2>4, TypedLine
    <2> QED BY <2>5 DEF LineOf
  <1>7. lines = [n \in 1 .. Len(order) |-> L(order[n])]
    BY DEF AdjustmentLines
  <1> HIDE DEF rows, K, L, lines
  <1>8. Len(order) = Cardinality(K)
    BY <1>4, <1>5
  <1>9. \A n \in 1 .. Cardinality(K) : order[n] \in K
    BY <1>5
  <1>10. /\ lines \in Seq(Line) /\ DOMAIN lines = 1 .. Cardinality(K)
         /\ \A n \in DOMAIN lines : lines[n] = L(order[n])
    BY <1>4, <1>6, <1>7, <1>8, <1>9
  <1>11. Honest(lines) /\ OwnLines(x, lines)
    BY <1>6, <1>9, <1>10 DEF Honest, OwnLines
  <1>12. ProductsOf(rows) \in SUBSET Products
    BY <1>2, StockConstants DEF ProductsOf
  <1> QED BY <1>10, <1>11, <1>12 DEF rows, lines

\* And those of a count.
LEMMA TypedCountLines ==
    ASSUME DocTypes, NEW c \in Counts, count[c] # NoDoc,
           NEW order \in [1 .. Cardinality(Differing(count[c])) -> Differing(count[c])]
    PROVE  /\ CountLines(c, order) \in Seq(Line)
           /\ Honest(CountLines(c, order))
           /\ OwnLines(c, CountLines(c, order))
  <1> DEFINE K == Differing(count[c])
             w == count[c].wh
             L(i) == LineOf([item |-> i, qty |-> 0], w, "count", Variance(count[c], i),
                            FALSE, c, "count", 0)
             lines == CountLines(c, order)
  <1>1. /\ w \in Warehouses /\ count[c].counted \in Sheet /\ count[c].expected \in Sheet
        /\ IsFiniteSet(DOMAIN count[c].counted)
    BY DEF DocTypes, Count
  <1>2. K \subseteq Items /\ IsFiniteSet(K)
    <2>1. K \subseteq DOMAIN count[c].counted
      BY DEF Differing
    <2>2. DOMAIN count[c].counted \subseteq Items
      BY <1>1 DEF Sheet
    <2> QED BY <1>1, <2>1, <2>2, FS_Subset
  <1>3. Cardinality(K) \in Nat
    BY <1>2, FS_CardinalityType
  <1>4. ASSUME NEW i \in K
        PROVE  L(i) \in Line /\ L(i).type = "count" /\ L(i).ref.doc = c
    <2>1. Variance(count[c], i) \in Int
      <3>1. /\ i \in DOMAIN count[c].counted /\ i \in DOMAIN count[c].expected
            /\ \A j \in DOMAIN count[c].counted : count[c].counted[j] \in Int
            /\ \A j \in DOMAIN count[c].expected : count[c].expected[j] \in Int
        BY <1>1 DEF Differing, DocTypes, Sheet
      <3> QED BY <3>1 DEF Variance
    <2>2. c \in Docs /\ [item |-> i, qty |-> 0].item \in Items
      BY <1>2, DocumentConstants
    <2>3. L(i) \in Line
      BY <1>1, <2>1, <2>2, TypedCorrection
    <2> QED BY <2>3 DEF LineOf
  <1>5. lines = [n \in 1 .. Len(order) |-> L(order[n])]
    BY DEF CountLines
  <1> HIDE DEF K, w, L, lines
  <1>6. order \in [1 .. Cardinality(K) -> K]
    BY DEF K
  <1>7. Len(order) = Cardinality(K)
    BY <1>3, <1>6
  <1>8. \A n \in 1 .. Cardinality(K) : order[n] \in K
    BY <1>6
  <1>9. /\ lines \in Seq(Line) /\ DOMAIN lines = 1 .. Cardinality(K)
        /\ \A n \in DOMAIN lines : lines[n] = L(order[n])
    <2>1. \A n \in 1 .. Cardinality(K) : L(order[n]) \in Line
      BY <1>4, <1>8
    <2> QED BY <2>1, <1>3, <1>5, <1>7
  <1>10. Honest(lines) /\ OwnLines(c, lines)
    BY <1>4, <1>9, <1>8 DEF Honest, OwnLines
  <1> QED BY <1>9, <1>10 DEF lines

-----------------------------------------------------------------------------
(* Steps of the documents                                                  *)

\* Steps that leave requests alone, and the documents that requests hold.
LEMMA CalmKeepsDocs ==
    ASSUME DocsInv, OversellInv', DocTypes', txn' = txn, pending' = pending,
           \A t \in Transfers : transfer[t] # NoDoc => transfer'[t] = transfer[t],
           \A x \in Adjustments : adjustment'[x] = adjustment[x] \/ DocUnlocked(x),
           \A c \in Counts : count[c] # NoDoc => count'[c] # NoDoc
    PROVE  DocsInv'
  <1>1. DocTypes /\ RequestsFit /\ DocsApart /\ RefsOwn
    BY DEF DocsInv
  <1>2. ASSUME NEW s \in Sessions
        PROVE  Fits(txn[s].op, txn[s].doc)'
    <2>1. Fits(txn[s].op, txn[s].doc)
      BY <1>1 DEF RequestsFit
    <2>2. txn[s].doc \in Adjustments => adjustment'[txn[s].doc] = adjustment[txn[s].doc]
      BY DEF DocUnlocked
    <2> QED BY <2>1, <2>2 DEF Fits, StatusOf
  <1>3. RequestsFit' /\ DocsApart' /\ RefsOwn'
    BY <1>1, <1>2 DEF RequestsFit, DocsApart, RefsOwn, OwnLines
  <1> QED BY <1>3 DEF DocsInv

LEMMA BeginKeepsDocs ==
    ASSUME DocsInv, NEW s \in Sessions, NEW op \in Ops \ {"idle"},
           NEW doc \in Docs \cup {NoDoc}, NEW lines \in Seq(Line), Honest(lines),
           OwnLines(doc, lines), NEW ahead \in SUBSET Products,
           Begin(s, op, doc, lines, ahead), Fits(op, doc),
           transfer' = transfer, adjustment' = adjustment, count' = count, DocTypes'
    PROVE  DocsInv'
  <1>1. DocTypes /\ RequestsFit /\ DocsApart /\ RefsOwn /\ OversellInv
    BY DEF DocsInv
  <1>2. OversellInv'
    BY <1>1, BeginKeepsOversellInv
  <1>3. PICK seen \in {policy, "unread"} :
           txn' = [txn EXCEPT ![s] = [op |-> op, doc |-> doc, todo |-> lines,
                                      held |-> ahead, seen |-> seen, done |-> {}]]
    BY DEF Begin
  <1>4. pending' = pending /\ txn[s].op = "idle" /\ (doc # NoDoc => DocUnlocked(doc))
    BY DEF Begin
  <1>5. txn \in [Sessions -> Txn]
    BY <1>1 DEF OversellInv, LedgerInv, TypeOK
  <1>6. /\ txn'[s].op = op /\ txn'[s].doc = doc /\ txn'[s].todo = lines
        /\ \A r \in Sessions : r # s => txn'[r] = txn[r]
    BY <1>3, <1>5
  <1>7. RequestsFit'
    <2> SUFFICES ASSUME NEW r \in Sessions PROVE Fits(txn[r].op, txn[r].doc)'
      BY DEF RequestsFit
    <2>1. Fits(txn[r].op, txn[r].doc)
      BY <1>1 DEF RequestsFit
    <2> QED BY <2>1, <1>6 DEF Fits, StatusOf
  <1>8. DocsApart'
    BY <1>1, <1>4, <1>6 DEF DocsApart, DocUnlocked
  <1>9. \A l \in Loc : pending[s][l] = <<>>
    BY <1>1, <1>4 DEF OversellInv, LedgerInv, LocksExclude
  <1>10. RefsOwn'
    <2> SUFFICES ASSUME NEW r \in Sessions
                 PROVE  /\ OwnLines(txn'[r].doc, txn'[r].todo)
                        /\ \A l \in Loc : OwnLines(txn'[r].doc, pending'[r][l])
      BY DEF RefsOwn, OwnLines
    <2>1. CASE r = s
      <3>1. DOMAIN <<>> = {}
        OBVIOUS
      <3> QED BY <2>1, <3>1, <1>4, <1>6, <1>9 DEF OwnLines
    <2>2. CASE r # s
      BY <2>2, <1>1, <1>4, <1>6 DEF RefsOwn
    <2> QED BY <2>1, <2>2
  <1> QED BY <1>2, <1>7, <1>8, <1>10 DEF DocsInv

\* What is left to do after one line.
LEMMA TailFacts ==
    ASSUME NEW todo \in Seq(Line), todo # <<>>
    PROVE  /\ Tail(todo) \in Seq(Line) /\ Len(Tail(todo)) = Len(todo) - 1
           /\ Len(todo) \in Nat /\ Len(todo) >= 1
           /\ DOMAIN todo = 1 .. Len(todo) /\ DOMAIN Tail(todo) = 1 .. Len(todo) - 1
           /\ Head(todo) = todo[1]
           /\ \A k \in DOMAIN Tail(todo) : k + 1 \in DOMAIN todo /\ Tail(todo)[k] = todo[k + 1]
  OBVIOUS

LEMMA AppendFacts ==
    ASSUME NEW h \in Seq(Movement), NEW e \in Movement
    PROVE  /\ Append(h, e) \in Seq(Movement) /\ Len(h) \in Nat
           /\ Append(h, e) # <<>> /\ Append(h, e)[Len(Append(h, e))] = e
           /\ DOMAIN h = 1 .. Len(h) /\ DOMAIN Append(h, e) = 1 .. Len(h) + 1
           /\ Append(h, e)[Len(h) + 1] = e
           /\ \A n \in DOMAIN h : n \in DOMAIN Append(h, e) /\ Append(h, e)[n] = h[n]
  OBVIOUS

\* What one line does to the request that posts or skips it.
LEMMA LineFacts ==
    ASSUME LedgerInv, NEW s \in Sessions, RecordMovement(s) \/ SkipImportRow(s)
    PROVE  /\ txn[s].todo \in Seq(Line) /\ txn[s].todo # <<>>
           /\ Current(s) = txn[s].todo[1] /\ Current(s) \in Line
           /\ txn'[s].op = txn[s].op /\ txn'[s].doc = txn[s].doc
           /\ txn'[s].todo = Tail(txn[s].todo)
           /\ \A r \in Sessions : r # s => txn'[r] = txn[r]
           /\ level' = level /\ hist' = hist
           /\ SkipImportRow(s) => pending' = pending /\ txn[s].op = "import"
           /\ RecordMovement(s) =>
                 /\ Place(Current(s)) \in Loc
                 /\ Entry(s, Current(s)) \in Movement
                 /\ \A r \in Sessions, l \in Loc : pending'[r][l] =
                       IF r = s /\ l = Place(Current(s))
                       THEN Append(pending[s][l], Entry(s, Current(s))) ELSE pending[r][l]
  <1>1. TypeOK
    BY DEF LedgerInv
  <1>2. txn[s].todo # <<>> /\ level' = level /\ hist' = hist
    BY DEF RecordMovement, SkipImportRow
  <1>3. txn \in [Sessions -> Txn] /\ txn[s] \in Txn /\ txn[s].todo \in Seq(Line)
    BY <1>1 DEF TypeOK, Txn
  <1>4. Current(s) = txn[s].todo[1] /\ Current(s) \in Line
    BY <1>2, <1>3 DEF Current
  <1>5. \E seen : txn' = [txn EXCEPT ![s] = Advance(s, Current(s), seen)]
    BY DEF RecordMovement, SkipImportRow
  <1>6. /\ txn'[s].op = txn[s].op /\ txn'[s].doc = txn[s].doc
        /\ txn'[s].todo = Tail(txn[s].todo)
        /\ \A r \in Sessions : r # s => txn'[r] = txn[r]
    BY <1>3, <1>5 DEF Advance, Txn
  <1>7. SkipImportRow(s) => pending' = pending /\ txn[s].op = "import"
    BY DEF SkipImportRow, ImportSkips
  <1>8. ASSUME RecordMovement(s)
        PROVE  /\ Place(Current(s)) \in Loc
               /\ Entry(s, Current(s)) \in Movement
               /\ \A r \in Sessions, l \in Loc : pending'[r][l] =
                     IF r = s /\ l = Place(Current(s))
                     THEN Append(pending[s][l], Entry(s, Current(s))) ELSE pending[r][l]
    <2> DEFINE l0 == Place(Current(s))
               e == Entry(s, Current(s))
    <2>1. l0 \in Loc /\ e \in Movement
      BY <1>1, <1>4, LocFacts, TypedEntry
    <2>2. pending' = [pending EXCEPT ![s][l0] = Append(@, e)]
      BY <1>8 DEF RecordMovement
    <2> HIDE DEF l0, e
    <2>3. \A r \in Sessions, l \in Loc : pending'[r][l] =
             IF r = s /\ l = l0 THEN Append(pending[s][l], e) ELSE pending[r][l]
      BY <1>1, <2>1, <2>2 DEF TypeOK
    <2> QED BY <2>1, <2>3 DEF l0, e
  <1> QED BY <1>2, <1>3, <1>4, <1>6, <1>7, <1>8

LEMMA LineKeepsDocs ==
    ASSUME DocsInv, NEW s \in Sessions, RecordMovement(s) \/ SkipImportRow(s),
           UNCHANGED docVars
    PROVE  DocsInv'
  <1>1. DocTypes /\ RequestsFit /\ DocsApart /\ RefsOwn /\ OversellInv /\ LedgerInv
    BY DEF DocsInv, OversellInv
  <1>2. OversellInv'
    BY <1>1, MoveKeepsOversellInv, SkipKeepsOversellInv
  <1>3. /\ txn[s].todo \in Seq(Line) /\ txn[s].todo # <<>>
        /\ Current(s) = txn[s].todo[1] /\ Current(s) \in Line
        /\ txn'[s].op = txn[s].op /\ txn'[s].doc = txn[s].doc
        /\ txn'[s].todo = Tail(txn[s].todo)
        /\ \A r \in Sessions : r # s => txn'[r] = txn[r]
        /\ SkipImportRow(s) => pending' = pending
        /\ RecordMovement(s) =>
              /\ Place(Current(s)) \in Loc
              /\ Entry(s, Current(s)) \in Movement
              /\ \A r \in Sessions, l \in Loc : pending'[r][l] =
                    IF r = s /\ l = Place(Current(s))
                    THEN Append(pending[s][l], Entry(s, Current(s))) ELSE pending[r][l]
    BY <1>1, LineFacts
  <1>4. \A r \in Sessions : txn'[r].op = txn[r].op /\ txn'[r].doc = txn[r].doc
    BY <1>3
  <1>5. /\ transfer' = transfer /\ adjustment' = adjustment /\ draft' = draft
        /\ count' = count /\ form' = form
    BY DEF docVars
  <1>6. DocTypes'
    BY <1>1, <1>5 DEF DocTypes
  <1>7. RequestsFit'
    <2> SUFFICES ASSUME NEW r \in Sessions PROVE Fits(txn[r].op, txn[r].doc)'
      BY DEF RequestsFit
    <2>1. Fits(txn[r].op, txn[r].doc)
      BY <1>1 DEF RequestsFit
    <2> QED BY <2>1, <1>4, <1>5 DEF Fits, StatusOf
  <1>8. DocsApart'
    BY <1>1, <1>4 DEF DocsApart
  <1>9. ASSUME NEW r \in Sessions PROVE OwnLines(txn'[r].doc, txn'[r].todo)
    <2>1. OwnLines(txn[r].doc, txn[r].todo)
      BY <1>1 DEF RefsOwn
    <2>2. CASE r = s
      BY <2>1, <2>2, <1>3, TailFacts DEF OwnLines
    <2>3. CASE r # s
      BY <2>1, <2>3, <1>3
    <2> QED BY <2>2, <2>3
  <1>10. ASSUME NEW r \in Sessions, NEW l \in Loc PROVE OwnLines(txn'[r].doc, pending'[r][l])
    <2>1. OwnLines(txn[r].doc, pending[r][l])
      BY <1>1 DEF RefsOwn
    <2>2. CASE pending'[r][l] = pending[r][l]
      BY <2>1, <2>2, <1>4
    <2>3. CASE /\ RecordMovement(s) /\ r = s
               /\ pending'[r][l] = Append(pending[s][l], Entry(s, Current(s)))
      <3>1. pending[s][l] \in Seq(Movement) /\ Entry(s, Current(s)) \in Movement
        BY <2>3, <1>1, <1>3 DEF LedgerInv, TypeOK
      <3>2. 1 \in DOMAIN txn[s].todo
        BY <1>3, TailFacts
      <3>3. Entry(s, Current(s)).ref.doc = txn[s].doc
        BY <3>2, <1>1, <1>3 DEF RefsOwn, OwnLines, Entry
      <3> QED BY <2>1, <2>3, <3>1, <3>3, <1>4, AppendFacts DEF OwnLines
    <2> QED BY <2>2, <2>3, <1>3
  <1>11. RefsOwn'
    BY <1>9, <1>10 DEF RefsOwn, OwnLines
  <1> QED BY <1>2, <1>6, <1>7, <1>8, <1>11 DEF DocsInv

\* The end of a request, which lets go of its document.
LEMMA EndKeepsDocs ==
    ASSUME DocsInv, NEW s \in Sessions, End(s), OversellInv', DocTypes',
           \A t \in Transfers : transfer'[t] = transfer[t] \/ t = txn[s].doc,
           \A x \in Adjustments : adjustment'[x] = adjustment[x] \/ x = txn[s].doc,
           \A c \in Counts : count[c] # NoDoc => count'[c] # NoDoc
    PROVE  DocsInv'
  <1>1. DocTypes /\ RequestsFit /\ DocsApart /\ RefsOwn /\ LedgerInv
    BY DEF DocsInv, OversellInv
  <1>2. /\ \A r \in Sessions : txn'[r] = IF r = s THEN Idle ELSE txn[r]
        /\ \A r \in Sessions, l \in Loc :
              pending'[r][l] = IF r = s THEN <<>> ELSE pending[r][l]
    BY <1>1, EndFacts
  <1>3. Idle.op = "idle" /\ Idle.doc = NoDoc /\ Idle.todo = <<>> /\ DOMAIN <<>> = {}
    BY DEF Idle
  <1>4. RequestsFit'
    <2> SUFFICES ASSUME NEW r \in Sessions PROVE Fits(txn[r].op, txn[r].doc)'
      BY DEF RequestsFit
    <2>1. CASE r = s
      BY <2>1, <1>2, <1>3 DEF Fits
    <2>2. CASE r # s
      <3>1. Fits(txn[r].op, txn[r].doc) /\ txn'[r] = txn[r]
        BY <2>2, <1>1, <1>2 DEF RequestsFit
      <3>2. txn[r].doc = NoDoc \/ txn[r].doc # txn[s].doc
        BY <2>2, <1>1 DEF DocsApart
      <3>3. /\ txn[r].doc \in Transfers => transfer'[txn[r].doc] = transfer[txn[r].doc]
            /\ txn[r].doc \in Adjustments => adjustment'[txn[r].doc] = adjustment[txn[r].doc]
        BY <3>2, DocSets
      <3> QED BY <3>1, <3>3 DEF Fits, StatusOf
    <2> QED BY <2>1, <2>2
  <1>5. DocsApart'
    BY <1>1, <1>2, <1>3 DEF DocsApart
  <1>6. RefsOwn'
    <2> SUFFICES ASSUME NEW r \in Sessions
                 PROVE  /\ OwnLines(txn'[r].doc, txn'[r].todo)
                        /\ \A l \in Loc : OwnLines(txn'[r].doc, pending'[r][l])
      BY DEF RefsOwn, OwnLines
    <2>1. CASE r = s
      BY <2>1, <1>2, <1>3 DEF OwnLines
    <2>2. CASE r # s
      BY <2>2, <1>1, <1>2 DEF RefsOwn
    <2> QED BY <2>1, <2>2
  <1> QED BY <1>4, <1>5, <1>6 DEF DocsInv

LEMMA SheetFacts ==
    /\ \A f : f \in Sheet <=> \E S \in SUBSET Items : f \in [S -> Int]
    /\ [i \in {} |-> 0] \in Sheet /\ DOMAIN [i \in {} |-> 0] = {}
  <1>1. \A f : f \in Sheet <=> \E S \in SUBSET Items : f \in [S -> Int]
    BY DEF Sheet
  <1>2. [i \in {} |-> 0] \in [{} -> Int]
    OBVIOUS
  <1> QED BY <1>1, <1>2

\* Documents are requested, refused and counted without stock moving.
LEMMA TransferCreated ==
    ASSUME DocsInv, CreateTransfer
    PROVE  /\ DocsInv' /\ UNCHANGED ledgerVars
           /\ \E t \in Transfers, d \in Transfer :
                 /\ transfer[t] = NoDoc /\ d.status = "draft" /\ d.from # d.to
                 /\ transfer' = [transfer EXCEPT ![t] = d]
  <1>1. PICK t \in Transfers, from \in Warehouses, to \in Warehouses, rows \in Rows :
           /\ transfer[t] = NoDoc /\ from # to
           /\ transfer' = [transfer EXCEPT ![t] = [from |-> from, to |-> to, rows |-> rows,
                                                   status |-> "draft"]]
    BY DEF CreateTransfer
  <1>2. UNCHANGED ledgerVars /\ adjustment' = adjustment /\ draft' = draft
        /\ count' = count /\ form' = form
    BY DEF CreateTransfer
  <1>3. DocTypes /\ OversellInv
    BY DEF DocsInv
  <1>4. PICK d : d = [from |-> from, to |-> to, rows |-> rows, status |-> "draft"]
    OBVIOUS
  <1>5. d \in Transfer /\ d.status = "draft" /\ d.from # d.to
    BY <1>1, <1>4 DEF Transfer, TransferStatus
  <1>6. transfer' = [transfer EXCEPT ![t] = d]
    BY <1>1, <1>4
  <1>7. DocTypes'
    BY <1>2, <1>3, <1>5, <1>6 DEF DocTypes
  <1>8. OversellInv'
    BY <1>2, <1>3, NextKeepsOversellInv
  <1>9. txn' = txn /\ pending' = pending
    BY <1>2 DEF ledgerVars
  <1>10. \A u \in Transfers : transfer[u] # NoDoc => transfer'[u] = transfer[u]
    BY <1>1, <1>3, <1>6 DEF DocTypes
  <1>11. DocsInv'
    BY <1>2, <1>7, <1>8, <1>9, <1>10, CalmKeepsDocs
  <1> QED BY <1>1, <1>2, <1>5, <1>6, <1>11

LEMMA AdjustmentRequested ==
    ASSUME DocsInv, RequestAdjustment \/ RejectAdjustment
    PROVE  DocsInv'
  <1>1. DocTypes /\ OversellInv
    BY DEF DocsInv
  <1>2. UNCHANGED ledgerVars /\ transfer' = transfer /\ draft' = draft
        /\ count' = count /\ form' = form
    BY DEF RequestAdjustment, RejectAdjustment
  <1>3. PICK x \in Adjustments, a \in Adjustment :
           DocUnlocked(x) /\ adjustment' = [adjustment EXCEPT ![x] = a]
    <2>1. CASE RequestAdjustment
      BY <2>1 DEF RequestAdjustment, Accepted
    <2>2. CASE RejectAdjustment
      <3>1. PICK x \in Adjustments :
               /\ StatusOf(adjustment[x]) = "pending" /\ DocUnlocked(x)
               /\ adjustment' = [adjustment EXCEPT ![x].status = "rejected"]
        BY <2>2 DEF RejectAdjustment
      <3>2. adjustment[x] \in Adjustment
        BY <1>1, <3>1 DEF DocTypes, StatusOf
      <3>3. [adjustment[x] EXCEPT !.status = "rejected"] \in Adjustment
        BY <3>2 DEF Adjustment, AdjustmentStatus
      <3>4. adjustment' = [adjustment EXCEPT ![x] = [adjustment[x] EXCEPT !.status = "rejected"]]
        BY <3>1
      <3> QED BY <3>1, <3>3, <3>4
    <2> QED BY <2>1, <2>2
  <1>4. DocTypes'
    BY <1>1, <1>2, <1>3 DEF DocTypes
  <1>5. OversellInv'
    BY <1>1, <1>2, NextKeepsOversellInv
  <1>6. txn' = txn /\ pending' = pending
    BY <1>2 DEF ledgerVars
  <1>7. \A y \in Adjustments : adjustment'[y] = adjustment[y] \/ DocUnlocked(y)
    BY <1>1, <1>3 DEF DocTypes
  <1> QED BY <1>2, <1>4, <1>5, <1>6, <1>7, CalmKeepsDocs

LEMMA Counted ==
    ASSUME DocsInv,
           \/ StartCount
           \/ \E s \in Sessions :
                 SubmitCounts(s) \/ SaveCounted(s) \/ FinishForm(s) \/ LoseForm(s)
    PROVE  /\ DocsInv'
           /\ \A c \in Counts : count[c] # NoDoc => /\ count'[c] # NoDoc
                                                    /\ count'[c].status = count[c].status
  <1>1. DocTypes /\ OversellInv
    BY DEF DocsInv
  <1>2. UNCHANGED ledgerVars /\ transfer' = transfer /\ draft' = draft
        /\ adjustment' = adjustment
    BY DEF StartCount, SubmitCounts, SaveCounted, FinishForm, LoseForm
  <1>3. /\ DocTypes'
        /\ \A c \in Counts : count[c] # NoDoc => /\ count'[c] # NoDoc
                                                 /\ count'[c].status = count[c].status
    <2>1. CASE StartCount
      <3>1. PICK c \in Counts, w \in Warehouses :
               /\ count[c] = NoDoc
               /\ count' = [count EXCEPT ![c] =
                    [wh |-> w, status |-> "open", counted |-> [i \in {} |-> 0],
                     expected |-> [i \in {j \in Items : <<w, j>> \in stocked} |->
                                      level[<<w, i>>]]]]
               /\ form' = form
        BY <2>1 DEF StartCount
      <3>2. PICK S : S = {j \in Items : <<w, j>> \in stocked}
        OBVIOUS
      <3>3. PICK f : f = [i \in S |-> level[<<w, i>>]]
        OBVIOUS
      <3>4. f \in Sheet
        <4>1. level \in [Loc -> Int] /\ S \in SUBSET Items
          BY <1>1, <3>2 DEF OversellInv, LedgerInv, TypeOK
        <4>2. \A i \in S : level[<<w, i>>] \in Int
          BY <4>1 DEF Loc
        <4>3. f \in [S -> Int]
          BY <3>3, <4>2
        <4> QED BY <4>1, <4>3, SheetFacts
      <3>5. PICK k : k = [wh |-> w, status |-> "open", counted |-> [i \in {} |-> 0],
                          expected |-> f]
        OBVIOUS
      <3>6. k \in Count /\ k # NoDoc /\ k.counted = [i \in {} |-> 0]
        BY <3>4, <3>5, SheetFacts, DocSets DEF Count
      <3>7. count' = [count EXCEPT ![c] = k]
        BY <3>1, <3>2, <3>3, <3>5
      <3>8. IsFiniteSet(DOMAIN k.counted) /\ DOMAIN k.counted \subseteq DOMAIN k.expected
        BY <3>6, SheetFacts, FS_EmptySet
      <3>9. \A d \in Counts : count'[d] = IF d = c THEN k ELSE count[d]
        BY <1>1, <3>7 DEF DocTypes
      <3>10. \A s \in Sessions : form[s] # NoDoc => form[s].count \in Counts
        BY <1>1 DEF DocTypes, Form
      <3>11. count' \in [Counts -> Count \cup {NoDoc}]
        BY <1>1, <3>6, <3>7 DEF DocTypes
      <3> QED BY <1>1, <1>2, <3>1, <3>6, <3>8, <3>9, <3>10, <3>11 DEF DocTypes
    <2>2. ASSUME NEW s \in Sessions, SubmitCounts(s)
          PROVE  DocTypes' /\ count' = count
      <3>1. PICK c \in Counts, approve \in BOOLEAN :
               /\ StatusOf(count[c]) = "open"
               /\ \E S \in SUBSET DOMAIN count[c].expected : \E v \in [S -> CountValues] :
                     form' = [form EXCEPT ![s] = [count |-> c, values |-> v,
                                                  approve |-> approve]]
        BY <2>2 DEF SubmitCounts
      <3>2. count' = count /\ count[c] # NoDoc
        BY <2>2, <3>1 DEF SubmitCounts, StatusOf
      <3>3. PICK S \in SUBSET DOMAIN count[c].expected :
               \E v \in [S -> CountValues] :
                  form' = [form EXCEPT ![s] = [count |-> c, values |-> v, approve |-> approve]]
        BY <3>1
      <3>4. PICK v \in [S -> CountValues] :
               form' = [form EXCEPT ![s] = [count |-> c, values |-> v, approve |-> approve]]
        BY <3>3
      <3>5. count[c] \in Count /\ DOMAIN count[c].expected \subseteq Items
        BY <1>1, <3>2 DEF DocTypes, Count, Sheet
      <3>6. v \in Sheet /\ DOMAIN v = S
        <4>1. S \in SUBSET Items
          BY <3>5
        <4>2. v \in [S -> Int] /\ DOMAIN v = S
          BY DocumentConstants
        <4>3. \E T \in SUBSET Items : v \in [T -> Int]
          BY <4>1, <4>2
        <4>4. v \in Sheet
          BY <4>3, SheetFacts
        <4> QED BY <4>2, <4>4
      <3>7. PICK k : k = [count |-> c, values |-> v, approve |-> approve]
        OBVIOUS
      <3>8. k \in Form /\ k.count = c /\ k.values = v
        BY <3>6, <3>7 DEF Form
      <3>9. /\ form' \in [Sessions -> Form \cup {NoDoc}]
            /\ \A r \in Sessions : form'[r] = IF r = s THEN k ELSE form[r]
        BY <1>1, <3>4, <3>7, <3>8 DEF DocTypes
      <3> QED BY <1>1, <1>2, <3>2, <3>6, <3>8, <3>9 DEF DocTypes
    <2>3. ASSUME NEW s \in Sessions, SaveCounted(s)
          PROVE  /\ DocTypes'
                 /\ \A c \in Counts : count[c] # NoDoc =>
                       count'[c] # NoDoc /\ count'[c].status = count[c].status
      <3> DEFINE c == form[s].count
                 v == form[s].values
                 old == count[c].counted
      <3>1. /\ form[s] # NoDoc
            /\ \E i \in DOMAIN v :
                  /\ count' = [count EXCEPT ![c].counted =
                                 [j \in DOMAIN old \cup {i} |-> IF j = i THEN v[i] ELSE old[j]]]
                  /\ form' = [form EXCEPT ![s].values = [j \in DOMAIN v \ {i} |-> v[j]]]
        BY <2>3 DEF SaveCounted
      <3>2. PICK i \in DOMAIN v :
               /\ count' = [count EXCEPT ![c].counted =
                              [j \in DOMAIN old \cup {i} |-> IF j = i THEN v[i] ELSE old[j]]]
               /\ form' = [form EXCEPT ![s].values = [j \in DOMAIN v \ {i} |-> v[j]]]
        BY <3>1
      <3>3. /\ form[s] \in Form /\ c \in Counts /\ v \in Sheet
            /\ count[c] \in Count /\ count[c] # NoDoc
            /\ DOMAIN v \subseteq DOMAIN count[c].expected
            /\ old \in Sheet /\ IsFiniteSet(DOMAIN old)
            /\ DOMAIN old \subseteq DOMAIN count[c].expected
        <4>1. form[s] \in Form
          BY <1>1, <3>1 DEF DocTypes
        <4>2. c \in Counts /\ v \in Sheet
          BY <4>1 DEF Form
        <4>3. count[c] \in Count /\ count[c] # NoDoc
          BY <1>1, <3>1, <4>2 DEF DocTypes
        <4>4. old \in Sheet
          BY <4>3 DEF Count
        <4> QED BY <1>1, <3>1, <4>1, <4>2, <4>3, <4>4 DEF DocTypes
      <3>4. PICK new : new = [j \in DOMAIN old \cup {i} |-> IF j = i THEN v[i] ELSE old[j]]
        OBVIOUS
      <3>5. PICK rest : rest = [j \in DOMAIN v \ {i} |-> v[j]]
        OBVIOUS
      <3> HIDE DEF c, v, old
      <3>6. /\ DOMAIN old \subseteq Items /\ \A j \in DOMAIN old : old[j] \in Int
            /\ DOMAIN v \subseteq Items /\ \A j \in DOMAIN v : v[j] \in Int
        BY <3>3, SheetFacts
      <3>7. new \in Sheet /\ DOMAIN new = DOMAIN old \cup {i} /\ IsFiniteSet(DOMAIN new)
        <4>1. DOMAIN new = DOMAIN old \cup {i}
          BY <3>4
        <4>2. new \in [DOMAIN old \cup {i} -> Int]
          BY <3>4, <3>6
        <4>3. DOMAIN old \cup {i} \in SUBSET Items
          BY <3>2, <3>6
        <4>4. \E T \in SUBSET Items : new \in [T -> Int]
          BY <4>2, <4>3
        <4>5. new \in Sheet
          BY <4>4, SheetFacts
        <4>6. IsFiniteSet(DOMAIN old \cup {i})
          BY <3>3, FS_AddElement
        <4> QED BY <4>1, <4>5, <4>6
      <3>8. rest \in Sheet /\ DOMAIN rest \subseteq DOMAIN v
        <4>1. rest \in [DOMAIN v \ {i} -> Int] /\ DOMAIN v \ {i} \in SUBSET Items
          BY <3>5, <3>6
        <4> QED BY <4>1, SheetFacts
      <3>9. PICK k : k = [count[c] EXCEPT !.counted = new]
        OBVIOUS
      <3>10. PICK g : g = [form[s] EXCEPT !.values = rest]
        OBVIOUS
      <3>11. /\ k \in Count /\ k # NoDoc /\ k.counted = new
             /\ k.expected = count[c].expected /\ k.status = count[c].status
        BY <3>3, <3>7, <3>9, DocSets DEF Count
      <3>12. g \in Form /\ g # NoDoc /\ g.values = rest /\ g.count = c
        BY <3>3, <3>8, <3>10, DocSets DEF Form, c
      <3>13. count' = [count EXCEPT ![c] = k] /\ form' = [form EXCEPT ![s] = g]
        BY <3>2, <3>4, <3>5, <3>9, <3>10 DEF c
      <3>14. /\ count' \in [Counts -> Count \cup {NoDoc}]
             /\ \A d \in Counts : count'[d] = IF d = c THEN k ELSE count[d]
             /\ form' \in [Sessions -> Form \cup {NoDoc}]
             /\ \A r \in Sessions : form'[r] = IF r = s THEN g ELSE form[r]
        BY <1>1, <3>3, <3>11, <3>12, <3>13 DEF DocTypes
      <3>15. ASSUME NEW r \in Sessions, form'[r] # NoDoc
             PROVE  /\ count'[form'[r].count] # NoDoc
                    /\ DOMAIN form'[r].values \subseteq DOMAIN count'[form'[r].count].expected
        <4>1. CASE r = s
          BY <4>1, <3>3, <3>8, <3>11, <3>12, <3>14
        <4>2. CASE r # s
          <5>1. form'[r] = form[r] /\ form[r] \in Form /\ form[r].count \in Counts
            BY <4>2, <3>14, <3>15, <1>1 DEF DocTypes, Form
          <5>2. /\ count[form[r].count] # NoDoc
                /\ DOMAIN form[r].values \subseteq DOMAIN count[form[r].count].expected
            BY <5>1, <3>15, <1>1 DEF DocTypes
          <5> QED BY <5>1, <5>2, <3>11, <3>14
        <4> QED BY <4>1, <4>2
      <3>16. ASSUME NEW d \in Counts, count'[d] # NoDoc
             PROVE  /\ IsFiniteSet(DOMAIN count'[d].counted)
                    /\ DOMAIN count'[d].counted \subseteq DOMAIN count'[d].expected
        <4>1. CASE d = c
          BY <4>1, <3>2, <3>3, <3>7, <3>11, <3>14
        <4>2. CASE d # c
          BY <4>2, <3>14, <3>16, <1>1 DEF DocTypes
        <4> QED BY <4>1, <4>2
      <3>17. DocTypes'
        BY <1>1, <1>2, <3>14, <3>15, <3>16 DEF DocTypes
      <3> QED BY <3>11, <3>14, <3>17
    <2>4. ASSUME NEW s \in Sessions, FinishForm(s) \/ LoseForm(s)
          PROVE  DocTypes' /\ count' = count
      <3>1. form' = [form EXCEPT ![s] = NoDoc] /\ count' = count
        BY <2>4 DEF FinishForm, LoseForm
      <3>2. /\ form' \in [Sessions -> Form \cup {NoDoc}]
            /\ \A r \in Sessions : form'[r] = IF r = s THEN NoDoc ELSE form[r]
        BY <1>1, <3>1 DEF DocTypes
      <3> QED BY <1>1, <1>2, <3>1, <3>2 DEF DocTypes
    <2> QED BY <2>1, <2>2, <2>3, <2>4
  <1>4. OversellInv'
    BY <1>1, <1>2, NextKeepsOversellInv
  <1>5. txn' = txn /\ pending' = pending
    BY <1>2 DEF ledgerVars
  <1> QED BY <1>2, <1>3, <1>4, <1>5, CalmKeepsDocs

LEMMA SameDocTypes ==
    ASSUME DocTypes, UNCHANGED docVars
    PROVE  DocTypes' /\ transfer' = transfer /\ adjustment' = adjustment
                     /\ draft' = draft /\ count' = count /\ form' = form
  BY DEF docVars, DocTypes

\* What a transfer request has to post.
Plan(op, t) ==
    CASE op = "dispatch" -> TransferLines(t, transfer[t].from, "transfer_out", -1, "out")
      [] op = "receive" -> TransferLines(t, transfer[t].to, "transfer_in", 1, "in")
      [] OTHER -> CancelLines(t)

\* The steps as they look to stock and to the transfers.
Calm == UNCHANGED <<level, hist, pending, txn, transfer>>
Created ==
    /\ UNCHANGED <<level, hist, pending, txn>>
    /\ \E t \in Transfers, d \in Transfer :
          /\ transfer[t] = NoDoc /\ d.status = "draft" /\ d.from # d.to
          /\ transfer' = [transfer EXCEPT ![t] = d]
Begun(s) ==
    /\ UNCHANGED <<level, hist, pending, transfer>>
    /\ txn[s].op = "idle"
    /\ \A r \in Sessions : r # s => txn'[r] = txn[r]
    /\ txn'[s].op \in TransferOps => txn'[s].todo = Plan(txn'[s].op, txn'[s].doc)
Lined(s) == (RecordMovement(s) \/ SkipImportRow(s)) /\ UNCHANGED transfer
Dropped(s) == End(s) /\ UNCHANGED <<level, hist, transfer>>
Published(s) ==
    /\ Publish(s)
    /\ transfer' = IF txn[s].op \in TransferOps
                   THEN [transfer EXCEPT ![txn[s].doc] =
                            [transfer[txn[s].doc] EXCEPT !.status = NewStatus[txn[s].op]]]
                   ELSE transfer
DocStep ==
    \/ Calm \/ Created
    \/ \E s \in Sessions : Begun(s) \/ Lined(s) \/ Dropped(s) \/ Published(s)

\* A transfer request begins.
LEMMA TransferBegins ==
    ASSUME DocsInv, NEW s \in Sessions,
           DispatchTransfer(s) \/ ReceiveTransfer(s) \/ CancelTransfer(s)
    PROVE  DocsInv' /\ Begun(s)
  <1>1. DocTypes /\ TypeOK
    BY DEF DocsInv, OversellInv, LedgerInv
  <1>2. /\ UNCHANGED docVars /\ DocTypes' /\ transfer' = transfer /\ adjustment' = adjustment
        /\ count' = count
    BY <1>1, SameDocTypes DEF DispatchTransfer, ReceiveTransfer, CancelTransfer
  <1>3. PICK t \in Transfers, op \in TransferOps :
           /\ Fits(op, t) /\ transfer[t] \in Transfer /\ transfer[t] # NoDoc
           /\ Begin(s, op, t, Plan(op, t), {})
    <2>1. CASE DispatchTransfer(s)
      <3>1. PICK t \in Transfers :
               /\ StatusOf(transfer[t]) = "draft"
               /\ Begin(s, "dispatch", t,
                        TransferLines(t, transfer[t].from, "transfer_out", -1, "out"), {})
        BY <2>1 DEF DispatchTransfer
      <3>2. "dispatch" \in TransferOps /\ Fits("dispatch", t)
        BY <3>1 DEF TransferOps, Fits
      <3>3. Begin(s, "dispatch", t, Plan("dispatch", t), {})
        BY <3>1 DEF Plan
      <3> QED BY <1>1, <3>1, <3>2, <3>3 DEF DocTypes, StatusOf
    <2>2. CASE ReceiveTransfer(s)
      <3>1. PICK t \in Transfers :
               /\ StatusOf(transfer[t]) = "dispatched"
               /\ Begin(s, "receive", t,
                        TransferLines(t, transfer[t].to, "transfer_in", 1, "in"), {})
        BY <2>2 DEF ReceiveTransfer
      <3>2. "receive" \in TransferOps /\ Fits("receive", t)
        BY <3>1 DEF TransferOps, Fits
      <3>3. Begin(s, "receive", t, Plan("receive", t), {})
        BY <3>1 DEF Plan
      <3> QED BY <1>1, <3>1, <3>2, <3>3 DEF DocTypes, StatusOf
    <2>3. CASE CancelTransfer(s)
      <3>1. PICK t \in Transfers :
               /\ StatusOf(transfer[t]) \in {"draft", "dispatched"}
               /\ Begin(s, "cancel", t, CancelLines(t), {})
        BY <2>3 DEF CancelTransfer
      <3>2. "cancel" \in TransferOps /\ Fits("cancel", t)
        BY <3>1 DEF TransferOps, Fits
      <3>3. Begin(s, "cancel", t, Plan("cancel", t), {})
        BY <3>1 DEF Plan
      <3> QED BY <1>1, <3>1, <3>2, <3>3 DEF DocTypes, StatusOf
    <2> QED BY <2>1, <2>2, <2>3
  <1>4. /\ Plan(op, t) \in Seq(Line) /\ Honest(Plan(op, t)) /\ OwnLines(t, Plan(op, t))
    <2>1. transfer[t].from \in Warehouses /\ transfer[t].to \in Warehouses
      BY <1>3 DEF Transfer
    <2>2. /\ "transfer_out" \in MovementTypes /\ "transfer_in" \in MovementTypes
          /\ "out" \in Legs /\ "in" \in Legs /\ "back" \in Legs
      BY DEF MovementTypes, Legs
    <2>3. CASE op = "dispatch"
      <3>1. Plan(op, t) = TransferLines(t, transfer[t].from, "transfer_out", -1, "out")
        BY <2>3 DEF Plan
      <3> QED BY <1>1, <1>3, <2>1, <2>2, <3>1, TypedTransferLines
    <2>4. CASE op = "receive"
      <3>1. Plan(op, t) = TransferLines(t, transfer[t].to, "transfer_in", 1, "in")
        BY <2>4 DEF Plan
      <3> QED BY <1>1, <1>3, <2>1, <2>2, <3>1, TypedTransferLines
    <2>5. CASE op = "cancel" /\ transfer[t].status = "dispatched"
      <3>1. Plan(op, t) = TransferLines(t, transfer[t].from, "transfer_in", 1, "back")
        BY <2>5 DEF Plan, CancelLines
      <3> QED BY <1>1, <1>3, <2>1, <2>2, <3>1, TypedTransferLines
    <2>6. CASE op = "cancel" /\ transfer[t].status # "dispatched"
      <3>1. Plan(op, t) = <<>>
        BY <2>6 DEF Plan, CancelLines
      <3>2. <<>> \in Seq(Line) /\ DOMAIN <<>> = {}
        OBVIOUS
      <3> QED BY <3>1, <3>2 DEF Honest, OwnLines
    <2> QED BY <1>3, <2>3, <2>4, <2>5, <2>6 DEF TransferOps
  <1>5. op \in Ops \ {"idle"} /\ t \in Docs
    BY DocumentConstants DEF Ops, TransferOps
  <1>6. DocsInv'
    BY <1>2, <1>3, <1>4, <1>5, BeginKeepsDocs
  <1>7. /\ level' = level /\ hist' = hist /\ pending' = pending /\ txn[s].op = "idle"
        /\ txn'[s].op = op /\ txn'[s].doc = t /\ txn'[s].todo = Plan(op, t)
        /\ \A r \in Sessions : r # s => txn'[r] = txn[r]
    BY <1>1, <1>3 DEF Begin, TypeOK
  <1> QED BY <1>2, <1>6, <1>7 DEF Begun

\* A correction begins.
LEMMA CorrectionBegins ==
    ASSUME DocsInv, NEW s \in Sessions,
           AdjustNow(s) \/ ApproveAdjustment(s) \/ ApproveCount(s)
    PROVE  DocsInv' /\ Begun(s)
  <1>1. DocTypes /\ TypeOK
    BY DEF DocsInv, OversellInv, LedgerInv
  <1>2. PICK op \in {"adjust", "approve", "count"}, doc \in Docs, lines \in Seq(Line),
             ahead \in SUBSET Products :
           /\ Honest(lines) /\ OwnLines(doc, lines) /\ Fits(op, doc)
           /\ Begin(s, op, doc, lines, ahead)
    <2>1. CASE AdjustNow(s)
      <3>1. PICK x \in Adjustments, a \in Adjustment :
               /\ adjustment[x] = NoDoc
               /\ \E order \in InOrder(WithChange(a)) :
                     Begin(s, "adjust", x, AdjustmentLines(x, a, order), ProductsOf(a.rows))
        BY <2>1 DEF AdjustNow, Accepted
      <3>2. PICK order \in InOrder(WithChange(a)) :
               Begin(s, "adjust", x, AdjustmentLines(x, a, order), ProductsOf(a.rows))
        BY <3>1
      <3>3. Fits("adjust", x) /\ x \in Docs
        BY <3>1, DocumentConstants DEF Fits
      <3> QED BY <3>2, <3>3, TypedAdjustmentLines
    <2>2. CASE ApproveAdjustment(s)
      <3>1. PICK x \in Adjustments :
               /\ StatusOf(adjustment[x]) = "pending"
               /\ \E order \in InOrder(WithChange(adjustment[x])) :
                     Begin(s, "approve", x, AdjustmentLines(x, adjustment[x], order), {})
        BY <2>2 DEF ApproveAdjustment
      <3>2. PICK order \in InOrder(WithChange(adjustment[x])) :
               Begin(s, "approve", x, AdjustmentLines(x, adjustment[x], order), {})
        BY <3>1
      <3>3. Fits("approve", x) /\ x \in Docs /\ adjustment[x] \in Adjustment
        BY <1>1, <3>1, DocumentConstants DEF Fits, StatusOf, DocTypes
      <3> QED BY <3>2, <3>3, TypedAdjustmentLines
    <2>3. CASE ApproveCount(s)
      <3>1. PICK c : c = form[s].count
        OBVIOUS
      <3>2. /\ form[s] # NoDoc /\ StatusOf(count[c]) = "open"
            /\ \E order \in [1 .. Cardinality(Differing(count[c])) -> Differing(count[c])] :
                  Begin(s, "count", c, CountLines(c, order), {})
        BY <2>3, <3>1 DEF ApproveCount
      <3>3. PICK order \in [1 .. Cardinality(Differing(count[c])) -> Differing(count[c])] :
               Begin(s, "count", c, CountLines(c, order), {})
        BY <3>2
      <3>4. c \in Counts /\ count[c] # NoDoc
        BY <1>1, <3>1, <3>2 DEF DocTypes, Form, StatusOf
      <3>5. Fits("count", c) /\ c \in Docs
        BY <3>4, DocumentConstants DEF Fits
      <3>6. /\ CountLines(c, order) \in Seq(Line) /\ Honest(CountLines(c, order))
            /\ OwnLines(c, CountLines(c, order))
        BY <1>1, <3>4, TypedCountLines
      <3> QED BY <3>3, <3>5, <3>6
    <2> QED BY <2>1, <2>2, <2>3
  <1>3. /\ transfer' = transfer /\ adjustment' = adjustment /\ count' = count /\ DocTypes'
    <2>1. transfer' = transfer /\ adjustment' = adjustment /\ count' = count
      BY DEF AdjustNow, ApproveAdjustment, ApproveCount, docVars
    <2>2. draft' \in [Sessions -> Adjustment \cup {NoDoc}]
      <3>1. CASE AdjustNow(s)
        <4>1. PICK a \in Adjustment : draft' = [draft EXCEPT ![s] = a]
          BY <3>1 DEF AdjustNow, Accepted
        <4> QED BY <4>1, <1>1 DEF DocTypes
      <3>2. CASE ApproveAdjustment(s) \/ ApproveCount(s)
        BY <3>2, <1>1 DEF ApproveAdjustment, ApproveCount, docVars, DocTypes
      <3> QED BY <3>1, <3>2
    <2>3. /\ form' \in [Sessions -> Form \cup {NoDoc}]
          /\ \A r \in Sessions : form'[r] = form[r] \/ form'[r] = NoDoc
      <3>1. form' = form \/ form' = [form EXCEPT ![s] = NoDoc]
        BY DEF AdjustNow, ApproveAdjustment, ApproveCount, docVars
      <3> QED BY <3>1, <1>1 DEF DocTypes
    <2> QED BY <1>1, <2>1, <2>2, <2>3 DEF DocTypes
  <1>4. op \in Ops \ {"idle"} /\ doc \in Docs \cup {NoDoc} /\ op \notin TransferOps
    BY DEF Ops, TransferOps
  <1>5. DocsInv'
    BY <1>2, <1>3, <1>4, BeginKeepsDocs
  <1>6. /\ level' = level /\ hist' = hist /\ pending' = pending /\ txn[s].op = "idle"
        /\ txn'[s].op = op /\ \A r \in Sessions : r # s => txn'[r] = txn[r]
    BY <1>1, <1>2 DEF Begin, TypeOK
  <1> QED BY <1>3, <1>4, <1>5, <1>6 DEF Begun

\* So does a request of another component.
LEMMA PostingBegins ==
    ASSUME DocsInv, NEW s \in Sessions, StartPosting(s) \/ StartOpening(s), UNCHANGED docVars
    PROVE  DocsInv' /\ Begun(s)
  <1>1. DocTypes /\ TypeOK
    BY DEF DocsInv, OversellInv, LedgerInv
  <1>2. /\ DocTypes' /\ transfer' = transfer /\ adjustment' = adjustment /\ count' = count
    BY <1>1, SameDocTypes
  <1>3. PICK p \in Postings, ahead \in SUBSET Products : Begin(s, p.op, NoDoc, p.lines, ahead)
    <2> DEFINE Ahead(p) == IF p.ahead
                           THEN {ProductOf[p.lines[k].item] : k \in DOMAIN p.lines} ELSE {}
    <2>1. CASE StartPosting(s)
      <3>1. PICK p \in Postings : Begin(s, p.op, NoDoc, p.lines, Ahead(p))
        BY <2>1 DEF StartPosting
      <3>2. Ahead(p) \in SUBSET Products
        BY PostingsTyped
      <3> HIDE DEF Ahead
      <3> QED BY <3>1, <3>2
    <2>2. CASE StartOpening(s)
      <3>1. PICK p \in Postings :
               p.lines # <<>> /\ Begin(s, p.op, NoDoc, p.lines, {ProductOf[p.lines[1].item]})
        BY <2>2 DEF StartOpening
      <3> QED BY <3>1, PostingsTyped
    <2> QED BY <2>1, <2>2
  <1>4. /\ p.op \in {"post", "import", "opening"} /\ p.lines \in Seq(Line)
        /\ Honest(p.lines) /\ OwnLines(NoDoc, p.lines)
    <2>1. p \in Posting
      BY StockConstants
    <2>2. Direct.doc = NoDoc
      BY DEF Direct
    <2> QED BY <2>1, <2>2, StockConstants DEF Posting, Honest, OwnLines
  <1>5. p.op \in Ops \ {"idle"} /\ p.op \notin TransferOps /\ Fits(p.op, NoDoc)
    BY <1>4 DEF Ops, TransferOps, Fits
  <1>6. DocsInv'
    BY <1>2, <1>3, <1>4, <1>5, BeginKeepsDocs
  <1>7. /\ level' = level /\ hist' = hist /\ pending' = pending /\ txn[s].op = "idle"
        /\ txn'[s].op = p.op /\ \A r \in Sessions : r # s => txn'[r] = txn[r]
    BY <1>1, <1>3 DEF Begin, TypeOK
  <1> QED BY <1>2, <1>5, <1>6, <1>7 DEF Begun

\* The end of a request that posted for a document.
LEMMA TransferEnds ==
    ASSUME DocsInv, NEW s \in Sessions, CommitTransfer(s)
    PROVE  DocsInv' /\ Published(s)
  <1>1. DocTypes /\ OversellInv /\ RequestsFit
    BY DEF DocsInv
  <1>2. PICK t : t = txn[s].doc
    OBVIOUS
  <1>3. /\ txn[s].op \in TransferOps /\ Publish(s) /\ adjustment' = adjustment
        /\ draft' = draft /\ count' = count /\ form' = form
        /\ transfer' = [transfer EXCEPT ![t].status = NewStatus[txn[s].op]]
    BY <1>2, DocSets DEF CommitTransfer
  <1>4. t \in Transfers /\ transfer[t] \in Transfer
    BY <1>1, <1>2, <1>3 DEF RequestsFit, Fits, TransferOps, StatusOf, DocTypes
  <1>5. NewStatus[txn[s].op] \in TransferStatus
    BY <1>3, DocSets DEF NewStatus, TransferOps, TransferStatus
  <1>6. PICK d : d = [transfer[t] EXCEPT !.status = NewStatus[txn[s].op]]
    OBVIOUS
  <1>7. d \in Transfer /\ transfer' = [transfer EXCEPT ![t] = d]
    BY <1>3, <1>4, <1>5, <1>6 DEF Transfer
  <1>8. DocTypes' /\ \A u \in Transfers : transfer'[u] = transfer[u] \/ u = t
    BY <1>1, <1>3, <1>7, ZenonT(40) DEF DocTypes
  <1>9. OversellInv' /\ End(s)
    BY <1>1, <1>3, PublishKeepsOversellInv DEF Publish
  <1>10. DocsInv'
    BY <1>2, <1>3, <1>8, <1>9, EndKeepsDocs
  <1>11. Published(s)
    BY <1>2, <1>3, <1>6, <1>7 DEF Published
  <1> QED BY <1>10, <1>11

LEMMA CorrectionEnds ==
    ASSUME DocsInv, NEW s \in Sessions, CommitAdjustment(s) \/ CommitCount(s)
    PROVE  /\ DocsInv' /\ Published(s)
           /\ \A x \in Adjustments : adjustment'[x] = adjustment[x] \/ x = txn[s].doc
           /\ \A c \in Counts : count'[c] = count[c] \/ count'[c].status = "approved"
  <1>1. DocTypes /\ OversellInv /\ RequestsFit
    BY DEF DocsInv
  <1>2. PICK d : d = txn[s].doc
    OBVIOUS
  <1>3. Publish(s) /\ transfer' = transfer /\ txn[s].op \notin TransferOps
    BY DEF CommitAdjustment, CommitCount, TransferOps
  <1>4. OversellInv' /\ End(s)
    BY <1>1, <1>3, PublishKeepsOversellInv DEF Publish
  <1>5. CASE CommitAdjustment(s)
    <2>1. PICK a \in Adjustment \cup {NoDoc} : adjustment' = [adjustment EXCEPT ![d] = a]
      <3>1. CASE txn[s].op = "adjust" /\ adjustment' = [adjustment EXCEPT ![d] = draft[s]]
        BY <3>1, <1>1 DEF DocTypes
      <3>2. CASE /\ txn[s].op = "approve"
                 /\ adjustment' = [adjustment EXCEPT ![d].status = "approved"]
        <4>1. adjustment[d] \in Adjustment
          BY <3>2, <1>1, <1>2 DEF RequestsFit, Fits, StatusOf, DocTypes
        <4>2. [adjustment[d] EXCEPT !.status = "approved"] \in Adjustment
          BY <4>1 DEF Adjustment, AdjustmentStatus
        <4>3. adjustment' = [adjustment EXCEPT ![d] = [adjustment[d] EXCEPT !.status = "approved"]]
          BY <3>2
        <4> QED BY <4>2, <4>3
      <3> QED BY <1>2, <1>5, <3>1, <3>2 DEF CommitAdjustment
    <2>2. /\ draft' \in [Sessions -> Adjustment \cup {NoDoc}] /\ count' = count /\ form' = form
      BY <1>1, <1>5 DEF CommitAdjustment, DocTypes
    <2>3. DocTypes'
      BY <1>1, <1>3, <2>1, <2>2 DEF DocTypes
    <2>4. \A x \in Adjustments : adjustment'[x] = adjustment[x] \/ x = d
      BY <1>1, <2>1 DEF DocTypes
    <2>5. DocsInv'
      BY <1>2, <1>3, <1>4, <2>2, <2>3, <2>4, EndKeepsDocs
    <2> QED BY <1>2, <1>3, <2>2, <2>4, <2>5 DEF Published
  <1>6. CASE CommitCount(s)
    <2>1. /\ txn[s].op = "count" /\ count' = [count EXCEPT ![d].status = "approved"]
          /\ adjustment' = adjustment /\ draft' = draft /\ form' = form
      BY <1>2, <1>6 DEF CommitCount
    <2>2. d \in Counts /\ count[d] \in Count
      BY <1>1, <1>2, <2>1 DEF RequestsFit, Fits, DocTypes
    <2>3. PICK k : k = [count[d] EXCEPT !.status = "approved"]
      OBVIOUS
    <2>4. /\ k \in Count /\ k # NoDoc /\ k.expected = count[d].expected
          /\ k.counted = count[d].counted /\ k.status = "approved"
          /\ count' = [count EXCEPT ![d] = k]
      BY <2>1, <2>2, <2>3, DocSets DEF Count
    <2>5. /\ count' \in [Counts -> Count \cup {NoDoc}]
          /\ \A c \in Counts : count'[c] = IF c = d THEN k ELSE count[c]
      BY <1>1, <2>4 DEF DocTypes
    <2>6. \A r \in Sessions : form[r] # NoDoc => form[r].count \in Counts
      BY <1>1 DEF DocTypes, Form
    <2>7. DocTypes'
      BY <1>1, <1>3, <2>1, <2>2, <2>4, <2>5, <2>6, DocSets DEF DocTypes
    <2>8. \A c \in Counts : count[c] # NoDoc => count'[c] # NoDoc
      BY <2>4, <2>5
    <2>9. DocsInv'
      BY <1>3, <1>4, <2>1, <2>7, <2>8, EndKeepsDocs
    <2> QED BY <1>3, <2>1, <2>4, <2>5, <2>9 DEF Published
  <1> QED BY <1>5, <1>6

LEMMA RequestDropped ==
    ASSUME DocsInv, NEW s \in Sessions, AbortStep(s)
    PROVE  DocsInv' /\ Dropped(s) /\ adjustment' = adjustment /\ count' = count
  <1>1. DocTypes /\ OversellInv
    BY DEF DocsInv
  <1>2. Rollback(s) /\ draft' = [draft EXCEPT ![s] = NoDoc] /\ transfer' = transfer
        /\ adjustment' = adjustment /\ count' = count /\ form' = form
    BY DEF AbortStep, LosesDraft, Refuse, DeadlockVictim, Crash
  <1>3. DocTypes'
    BY <1>1, <1>2 DEF DocTypes
  <1>4. OversellInv' /\ End(s) /\ level' = level /\ hist' = hist
    BY <1>1, <1>2, RollbackKeepsOversellInv DEF Rollback
  <1>5. DocsInv'
    BY <1>2, <1>3, <1>4, EndKeepsDocs
  <1> QED BY <1>2, <1>4, <1>5 DEF Dropped

LEMMA PostingEnds ==
    ASSUME DocsInv, NEW s \in Sessions, Commit(s), UNCHANGED docVars
    PROVE  DocsInv' /\ Published(s)
  <1>1. DocTypes /\ OversellInv
    BY DEF DocsInv
  <1>2. Publish(s) /\ txn[s].op \notin TransferOps
    BY DEF Commit, TransferOps
  <1>3. /\ DocTypes' /\ transfer' = transfer /\ adjustment' = adjustment /\ count' = count
    BY <1>1, SameDocTypes
  <1>4. OversellInv' /\ End(s)
    BY <1>1, <1>2, PublishKeepsOversellInv DEF Publish
  <1>5. DocsInv'
    BY <1>3, <1>4, EndKeepsDocs
  <1> QED BY <1>2, <1>3, <1>5 DEF Published

LEMMA SettingsKeepDocs ==
    ASSUME DocsInv, AssignLocation \/ SetPolicy, UNCHANGED docVars
    PROVE  DocsInv' /\ Calm
  <1>1. DocTypes /\ OversellInv
    BY DEF DocsInv
  <1>2. /\ DocTypes' /\ transfer' = transfer /\ adjustment' = adjustment /\ count' = count
    BY <1>1, SameDocTypes
  <1>3. level' = level /\ hist' = hist /\ pending' = pending /\ txn' = txn
    BY DEF AssignLocation, SetPolicy
  <1>4. OversellInv'
    BY <1>1, SettingsKeepOversellInv
  <1>5. DocsInv'
    BY <1>2, <1>3, <1>4, CalmKeepsDocs
  <1> QED BY <1>2, <1>3, <1>5 DEF Calm

\* Every step keeps the invariant and is one of the steps named above.
LEMMA DocSteps ==
    ASSUME DocsInv, [Next]_vars
    PROVE  DocsInv' /\ DocStep
  <1>1. CASE UNCHANGED vars
    <2>1. UNCHANGED ledgerVars /\ UNCHANGED docVars
      BY <1>1 DEF vars, ledgerVars, docVars
    <2>2. DocTypes /\ OversellInv
      BY DEF DocsInv
    <2>3. /\ DocTypes' /\ transfer' = transfer /\ adjustment' = adjustment /\ count' = count
      BY <2>1, <2>2, SameDocTypes
    <2>4. level' = level /\ hist' = hist /\ pending' = pending /\ txn' = txn
      BY <2>1 DEF ledgerVars
    <2>5. OversellInv'
      BY <2>1, <2>2, NextKeepsOversellInv
    <2>6. DocsInv'
      BY <2>3, <2>4, <2>5, CalmKeepsDocs
    <2> QED BY <2>3, <2>4, <2>6 DEF Calm, DocStep
  <1>2. CASE CreateTransfer
    <2>1. DocsInv' /\ Created
      BY <1>2, TransferCreated DEF Created, ledgerVars
    <2> QED BY <2>1 DEF DocStep
  <1>3. CASE RequestAdjustment \/ RejectAdjustment
    <2>1. DocsInv' /\ Calm
      BY <1>3, AdjustmentRequested DEF Calm, RequestAdjustment, RejectAdjustment, ledgerVars
    <2> QED BY <2>1 DEF DocStep
  <1>4. CASE StartCount \/ \E s \in Sessions :
                SubmitCounts(s) \/ SaveCounted(s) \/ FinishForm(s) \/ LoseForm(s)
    <2>1. DocsInv'
      BY <1>4, Counted
    <2>2. Calm
      BY <1>4 DEF Calm, StartCount, SubmitCounts, SaveCounted, FinishForm, LoseForm, ledgerVars
    <2> QED BY <2>1, <2>2 DEF DocStep
  <1>5. CASE (AssignLocation \/ SetPolicy) /\ UNCHANGED docVars
    BY <1>5, SettingsKeepDocs DEF DocStep
  <1>6. ASSUME NEW s \in Sessions, LedgerStep(s)
        PROVE  DocsInv' /\ DocStep
    <2>1. UNCHANGED docVars
      BY <1>6 DEF LedgerStep
    <2>2. CASE StartPosting(s) \/ StartOpening(s)
      BY <2>1, <2>2, PostingBegins DEF DocStep
    <2>3. CASE RecordMovement(s) \/ SkipImportRow(s)
      <3>1. DocsInv' /\ transfer' = transfer
        BY <2>1, <2>3, LineKeepsDocs DEF docVars
      <3> QED BY <2>3, <3>1 DEF DocStep, Lined
    <2>4. CASE Commit(s)
      BY <2>1, <2>4, PostingEnds DEF DocStep
    <2> QED BY <1>6, <2>2, <2>3, <2>4 DEF LedgerStep
  <1>7. ASSUME NEW s \in Sessions,
               \/ DispatchTransfer(s) \/ ReceiveTransfer(s) \/ CancelTransfer(s)
               \/ AdjustNow(s) \/ ApproveAdjustment(s) \/ ApproveCount(s)
        PROVE  DocsInv' /\ DocStep
    BY <1>7, TransferBegins, CorrectionBegins DEF DocStep
  <1>8. ASSUME NEW s \in Sessions, CommitTransfer(s) \/ CommitAdjustment(s) \/ CommitCount(s)
        PROVE  DocsInv' /\ DocStep
    BY <1>8, TransferEnds, CorrectionEnds DEF DocStep
  <1>9. ASSUME NEW s \in Sessions, AbortStep(s)
        PROVE  DocsInv' /\ DocStep
    BY <1>9, RequestDropped DEF DocStep
  <1> QED BY <1>1, <1>2, <1>3, <1>4, <1>5, <1>6, <1>7, <1>8, <1>9 DEF Next

LEMMA InitDocsInv ==
    ASSUME Init PROVE DocsInv
  <1>1. OversellInv
    BY InitOversellInv DEF Init
  <1>2. DocTypes
    BY DEF Init, DocTypes
  <1>3. /\ Idle.op = "idle" /\ Idle.doc = NoDoc /\ Idle.todo = <<>> /\ DOMAIN <<>> = {}
        /\ \A s \in Sessions : txn[s] = Idle /\ \A l \in Loc : pending[s][l] = <<>>
    BY DEF Init, InitLedger, Idle, NothingPending
  <1>4. RequestsFit /\ DocsApart
    BY <1>3 DEF RequestsFit, Fits, DocsApart
  <1>5. RefsOwn
    BY <1>3 DEF RefsOwn, OwnLines
  <1> QED BY <1>1, <1>2, <1>4, <1>5 DEF DocsInv

\* The row lock on a document keeps its status for the request that looked at it
\* and no two requests hold one document, whatever the forms do meanwhile.
THEOREM DocumentsInvariant == DocSpec => []DocsInv
  <1>1. Init => DocsInv
    BY InitDocsInv
  <1>2. DocsInv /\ [Next]_vars => DocsInv'
    BY DocSteps
  <1> QED BY <1>1, <1>2, PTL DEF DocSpec

\* The chain of balances and the cached levels survive the documents as well:
\* they post through record_movement and nothing else.
THEOREM LevelMatchesLedgerWithDocuments == DocSpec => []LedgerChain
  <1>1. DocsInv => LedgerChain
    BY DEF DocsInv, OversellInv, LedgerInv
  <1> QED BY <1>1, DocumentsInvariant, PTL

\* Nor do transfers, adjustments and counts sell stock that is not there.
THEOREM NeverOversoldWithDocuments == DocSpec => []NoOversell
  <1>1. DocsInv => NoOversell
    BY DEF DocsInv, OversellInv, SeenCovered, NoOversell, HasCount
  <1> QED BY <1>1, DocumentsInvariant, PTL

LEMMA StepsSettle ==
    ASSUME DocsInv, Next
    PROVE  /\ \A t \in Transfers : StatusOf(transfer[t]) \in {"received", "cancelled"}
                                      => transfer'[t] = transfer[t]
           /\ \A x \in Adjustments : StatusOf(adjustment[x]) \in {"approved", "rejected"}
                                      => adjustment'[x] = adjustment[x]
           /\ \A c \in Counts : StatusOf(count[c]) = "approved"
                                      => count'[c].status = "approved"
  <1>1. DocTypes /\ RequestsFit
    BY DEF DocsInv
  <1>2. ASSUME NEW t \in Transfers, StatusOf(transfer[t]) \in {"received", "cancelled"}
        PROVE  transfer'[t] = transfer[t]
    <2>1. transfer[t] # NoDoc
      BY <1>2 DEF StatusOf
    <2>2. CASE Calm \/ \E s \in Sessions : Begun(s) \/ Lined(s) \/ Dropped(s)
      BY <2>2 DEF Calm, Begun, Lined, Dropped
    <2>3. CASE Created
      BY <2>1, <2>3, <1>1 DEF Created, DocTypes
    <2>4. ASSUME NEW s \in Sessions, Published(s)
          PROVE  transfer'[t] = transfer[t]
      <3>1. Fits(txn[s].op, txn[s].doc)
        BY <1>1 DEF RequestsFit
      <3>2. txn[s].op \in TransferOps => txn[s].doc # t
        BY <3>1, <1>2 DEF Fits, TransferOps
      <3> QED BY <2>4, <3>2, <1>1 DEF Published, DocTypes
    <2> QED BY <2>2, <2>3, <2>4, DocSteps DEF DocStep
  <1>3. CASE UNCHANGED <<adjustment, count>>
    BY <1>2, <1>3 DEF StatusOf
  <1>4. CASE RequestAdjustment \/ RejectAdjustment
    <2>1. PICK x \in Adjustments, a \in Adjustment :
             /\ StatusOf(adjustment[x]) \in {"none", "pending"} /\ count' = count
             /\ adjustment' = [adjustment EXCEPT ![x] = a]
      <3>1. CASE RequestAdjustment
        BY <3>1 DEF RequestAdjustment, Accepted, StatusOf
      <3>2. CASE RejectAdjustment
        <4>1. PICK x \in Adjustments :
                 /\ StatusOf(adjustment[x]) = "pending" /\ count' = count
                 /\ adjustment' = [adjustment EXCEPT ![x].status = "rejected"]
          BY <3>2 DEF RejectAdjustment
        <4>2. adjustment[x] \in Adjustment
          BY <1>1, <4>1 DEF DocTypes, StatusOf
        <4>3. [adjustment[x] EXCEPT !.status = "rejected"] \in Adjustment
          BY <4>2 DEF Adjustment, AdjustmentStatus
        <4>4. adjustment' = [adjustment EXCEPT ![x] = [adjustment[x] EXCEPT !.status = "rejected"]]
          BY <4>1
        <4> QED BY <4>1, <4>3, <4>4
      <3> QED BY <1>4, <3>1, <3>2
    <2>2. \A y \in Adjustments : y # x => adjustment'[y] = adjustment[y]
      BY <2>1, <1>1 DEF DocTypes
    <2> QED BY <1>2, <2>1, <2>2 DEF StatusOf
  <1>5. CASE \/ StartCount
             \/ \E s \in Sessions :
                   SubmitCounts(s) \/ SaveCounted(s) \/ FinishForm(s) \/ LoseForm(s)
    <2>1. adjustment' = adjustment
      BY <1>5 DEF StartCount, SubmitCounts, SaveCounted, FinishForm, LoseForm
    <2>2. \A c \in Counts : count[c] # NoDoc => count'[c].status = count[c].status
      BY <1>5, Counted
    <2> QED BY <1>2, <2>1, <2>2 DEF StatusOf
  <1>6. ASSUME NEW s \in Sessions, CommitAdjustment(s) \/ CommitCount(s)
        PROVE  /\ \A x \in Adjustments : StatusOf(adjustment[x]) \in {"approved", "rejected"}
                                      => adjustment'[x] = adjustment[x]
               /\ \A c \in Counts : StatusOf(count[c]) = "approved"
                                      => count'[c].status = "approved"
    <2>1. /\ \A x \in Adjustments : adjustment'[x] = adjustment[x] \/ x = txn[s].doc
          /\ \A c \in Counts : count'[c] = count[c] \/ count'[c].status = "approved"
      BY <1>6, CorrectionEnds
    <2>2. Fits(txn[s].op, txn[s].doc)
      BY <1>1 DEF RequestsFit
    <2>3. txn[s].op \in {"adjust", "approve", "count"}
      BY <1>6 DEF CommitAdjustment, CommitCount
    <2>4. \A x \in Adjustments : x = txn[s].doc =>
             StatusOf(adjustment[x]) \in {"none", "pending"}
      BY <2>2, <2>3, DocSets DEF Fits, StatusOf
    <2> QED BY <2>1, <2>4 DEF StatusOf
  <1>7. \/ UNCHANGED <<adjustment, count>>
        \/ RequestAdjustment \/ RejectAdjustment \/ StartCount
        \/ \E s \in Sessions :
              \/ SubmitCounts(s) \/ SaveCounted(s) \/ FinishForm(s) \/ LoseForm(s)
              \/ CommitAdjustment(s) \/ CommitCount(s)
    BY DEF Next, CreateTransfer, LedgerStep, AbortStep, LosesDraft, DispatchTransfer,
           ReceiveTransfer, CancelTransfer, CommitTransfer, AdjustNow, ApproveAdjustment,
           ApproveCount, docVars
  <1> QED BY <1>2, <1>3, <1>4, <1>5, <1>6, <1>7

\* Statuses only move forward: what was received, cancelled, approved or rejected
\* stays so, because each workflow function looks at the status under the row lock
\* (and the forms of a count, which hold no lock, leave its status alone).
THEOREM DocumentsOnlyMoveOn == DocSpec => DocumentsSettle
  <1>1. DocsInv /\ [Next]_vars =>
           [ /\ \A t \in Transfers : StatusOf(transfer[t]) \in {"received", "cancelled"}
                                        => transfer'[t] = transfer[t]
             /\ \A x \in Adjustments : StatusOf(adjustment[x]) \in {"approved", "rejected"}
                                        => adjustment'[x] = adjustment[x]
             /\ \A c \in Counts : StatusOf(count[c]) = "approved"
                                        => count'[c].status = "approved" ]_vars
    BY StepsSettle
  <1> QED BY <1>1, DocumentsInvariant, PTL DEF DocSpec, DocumentsSettle

-----------------------------------------------------------------------------
(* Half of a transfer                                                      *)
(*                                                                         *)
(* Between the first row of a transfer and its last one the request has    *)
(* posted a part of its plan, and what it sees differs from what is        *)
(* committed by just that part.                                            *)

Share(p, l) == [k \in DOMAIN p |-> IF Place(p[k]) = l THEN p[k].qty ELSE 0]
Moved(p, l, n) == SumOf(Share(p, l), 1 .. n)

Progress(s, p, n) ==
    /\ n \in 0 .. Len(p)
    /\ Len(txn[s].todo) = Len(p) - n
    /\ \A k \in DOMAIN txn[s].todo : txn[s].todo[k] = p[n + k]
    /\ \A l \in Loc : View(s, l) = level[l] + Moved(p, l, n)
    /\ \A l \in Loc : \A m \in DOMAIN pending[s][l] :
          \E k \in 1 .. n : Place(p[k]) = l /\ pending[s][l][m].ref = p[k].ref
    /\ \A k \in 1 .. n : \E m \in DOMAIN pending[s][Place(p[k])] :
          pending[s][Place(p[k])][m].ref = p[k].ref

HalfDone == \A s \in Sessions : txn[s].op \in TransferOps =>
    \E p \in Seq(Line), n \in Nat : p = Plan(txn[s].op, txn[s].doc) /\ Progress(s, p, n)

LEMMA PlanTyped ==
    ASSUME NEW p \in Seq(Line)
    PROVE  /\ Len(p) \in Nat /\ DOMAIN p = 1 .. Len(p)
           /\ \A k \in DOMAIN p : p[k] \in Line /\ p[k].qty \in Int /\ Place(p[k]) \in Loc
  <1>1. Len(p) \in Nat /\ DOMAIN p = 1 .. Len(p) /\ \A k \in DOMAIN p : p[k] \in Line
    OBVIOUS
  <1>2. \A m \in Line : m.qty \in Int /\ Place(m) \in Loc
    BY LocFacts DEF Line
  <1> QED BY <1>1, <1>2

LEMMA MovedFacts ==
    ASSUME NEW p \in Seq(Line), NEW l, NEW n \in 0 .. Len(p)
    PROVE  /\ Moved(p, l, n) \in Int
           /\ Moved(p, l, 0) = 0
           /\ n < Len(p) => Moved(p, l, n + 1) =
                 Moved(p, l, n) + (IF Place(p[n + 1]) = l THEN p[n + 1].qty ELSE 0)
  <1> DEFINE f == Share(p, l)
  <1>1. DOMAIN p = 1 .. Len(p) /\ Len(p) \in Nat /\ \A k \in DOMAIN p : p[k].qty \in Int
    BY PlanTyped
  <1>2. /\ \A k \in 1 .. Len(p) : f[k] \in Int
        /\ \A k \in 1 .. Len(p) : f[k] = IF Place(p[k]) = l THEN p[k].qty ELSE 0
    BY <1>1 DEF Share
  <1> HIDE DEF f
  <1>3. IsFiniteSet(1 .. n)
    BY FS_Interval
  <1>4. SumOf(f, 1 .. n) \in Int
    <2>1. \A k \in 1 .. n : f[k] \in Int
      BY <1>1, <1>2
    <2> QED BY <2>1, <1>3, SumType
  <1>5. SumOf(f, 1 .. 0) = 0
    <2>1. 1 .. 0 = {}
      OBVIOUS
    <2> QED BY <2>1, FS_EmptySet, SumStep
  <1>6. ASSUME n < Len(p) PROVE SumOf(f, 1 .. n + 1) = f[n + 1] + SumOf(f, 1 .. n)
    <2>1. n + 1 \notin 1 .. n /\ 1 .. n + 1 = (1 .. n) \cup {n + 1}
      BY <1>1
    <2>2. \A k \in (1 .. n) \cup {n + 1} : f[k] \in Int
      BY <1>1, <1>2, <1>6
    <2> QED BY <2>1, <2>2, <1>3, SumAdd
  <1>7. n < Len(p) => f[n + 1] = (IF Place(p[n + 1]) = l THEN p[n + 1].qty ELSE 0)
                      /\ f[n + 1] \in Int
    BY <1>1, <1>2
  <1> QED BY <1>4, <1>5, <1>6, <1>7 DEF Moved, f

\* How much of item i the rows of a transfer carry.
Amounts(rows, i) == [k \in DOMAIN rows |-> IF rows[k].item = i THEN rows[k].qty ELSE 0]
Carried(t, i) == SumOf(Amounts(transfer[t].rows, i), DOMAIN transfer[t].rows)

\* Where, with which sign and under which leg a request posts, and which rows.
Leg(op) == CASE op = "dispatch" -> "out" [] op = "receive" -> "in" [] OTHER -> "back"
Sign(op) == IF op = "dispatch" THEN -1 ELSE 1
Site(op, t) == IF op = "receive" THEN transfer[t].to ELSE transfer[t].from
Moves(op, t) == op = "cancel" => transfer[t].status = "dispatched"

\* The lines q post each row of t once.
Mirrors(q, op, t) ==
    /\ Len(q) = Len(transfer[t].rows)
    /\ DOMAIN q = DOMAIN transfer[t].rows
    /\ \A k \in DOMAIN transfer[t].rows :
          /\ q[k].qty = Sign(op) * transfer[t].rows[k].qty
          /\ Place(q[k]) = <<Site(op, t), transfer[t].rows[k].item>>
          /\ q[k].ref = [doc |-> t, leg |-> Leg(op), row |-> k]

LEMMA PlanFacts ==
    ASSUME DocTypes, NEW op \in TransferOps, NEW t, Fits(op, t)
    PROVE  /\ t \in Transfers /\ transfer[t] \in Transfer /\ transfer[t] # NoDoc
           /\ Plan(op, t) \in Seq(Line)
           /\ ~ Moves(op, t) => Plan(op, t) = <<>> /\ transfer[t].status = "draft"
           /\ Moves(op, t) => Mirrors(Plan(op, t), op, t)
           /\ \A k \in DOMAIN Plan(op, t) : Plan(op, t)[k].mode = "by"
  <1>1. t \in Transfers /\ transfer[t] \in Transfer /\ transfer[t] # NoDoc
    BY DEF Fits, TransferOps, StatusOf, DocTypes
  <1>2. transfer[t].from \in Warehouses /\ transfer[t].to \in Warehouses
    BY <1>1 DEF Transfer
  <1>3. /\ "transfer_out" \in MovementTypes /\ "transfer_in" \in MovementTypes
        /\ "out" \in Legs /\ "in" \in Legs /\ "back" \in Legs
    BY DEF MovementTypes, Legs
  <1>4. ASSUME NEW w \in Warehouses, NEW type \in MovementTypes, NEW sign \in {-1, 1},
               NEW leg \in Legs, Plan(op, t) = TransferLines(t, w, type, sign, leg),
               Leg(op) = leg, Sign(op) = sign, Site(op, t) = w, Moves(op, t)
        PROVE  /\ Plan(op, t) \in Seq(Line) /\ Mirrors(Plan(op, t), op, t)
               /\ \A k \in DOMAIN Plan(op, t) : Plan(op, t)[k].mode = "by"
    <2>1. PICK q : q = TransferLines(t, w, type, sign, leg)
      OBVIOUS
    <2>2. /\ q \in Seq(Line)
          /\ Len(q) = Len(transfer[t].rows) /\ DOMAIN q = DOMAIN transfer[t].rows
          /\ \A k \in DOMAIN transfer[t].rows :
                /\ q[k].qty = sign * transfer[t].rows[k].qty
                /\ q[k].mode = "by"
                /\ Place(q[k]) = <<w, transfer[t].rows[k].item>>
                /\ q[k].ref = [doc |-> t, leg |-> leg, row |-> k]
      BY <1>1, <2>1, TypedTransferLines
    <2>3. q = Plan(op, t)
      BY <1>4, <2>1
    <2>4. Mirrors(q, op, t)
      BY <2>2, <1>4 DEF Mirrors
    <2> QED BY <2>2, <2>3, <2>4
  <1>5. CASE op = "dispatch"
    <2>1. /\ Plan(op, t) = TransferLines(t, transfer[t].from, "transfer_out", -1, "out")
          /\ Leg(op) = "out" /\ Sign(op) = -1 /\ Site(op, t) = transfer[t].from /\ Moves(op, t)
      BY <1>5 DEF Plan, Leg, Sign, Site, Moves
    <2> QED BY <2>1, <1>1, <1>2, <1>3, <1>4
  <1>6. CASE op = "receive"
    <2>1. /\ Plan(op, t) = TransferLines(t, transfer[t].to, "transfer_in", 1, "in")
          /\ Leg(op) = "in" /\ Sign(op) = 1 /\ Site(op, t) = transfer[t].to /\ Moves(op, t)
      BY <1>6 DEF Plan, Leg, Sign, Site, Moves
    <2> QED BY <2>1, <1>1, <1>2, <1>3, <1>4
  <1>7. CASE op = "cancel" /\ transfer[t].status = "dispatched"
    <2>1. /\ Plan(op, t) = TransferLines(t, transfer[t].from, "transfer_in", 1, "back")
          /\ Leg(op) = "back" /\ Sign(op) = 1 /\ Site(op, t) = transfer[t].from /\ Moves(op, t)
      BY <1>7 DEF Plan, CancelLines, Leg, Sign, Site, Moves
    <2> QED BY <2>1, <1>1, <1>2, <1>3, <1>4
  <1>8. CASE op = "cancel" /\ transfer[t].status # "dispatched"
    <2>1. Plan(op, t) = <<>> /\ ~ Moves(op, t)
      BY <1>8 DEF Plan, CancelLines, Moves
    <2>2. transfer[t].status = "draft"
      BY <1>1, <1>8 DEF Fits, StatusOf
    <2>3. <<>> \in Seq(Line) /\ DOMAIN <<>> = {}
      OBVIOUS
    <2> QED BY <2>1, <2>2, <2>3, <1>1
  <1> QED BY <1>5, <1>6, <1>7, <1>8 DEF TransferOps

\* The plan rests on the transfer that the request holds.
LEMMA SamePlan ==
    ASSUME NEW s \in Sessions, NEW op, NEW t, txn'[s].op = op, txn'[s].doc = t,
           transfer'[t] = transfer[t]
    PROVE  Plan(txn[s].op, txn[s].doc)' = Plan(op, t)
  BY DEF Plan, CancelLines, TransferLines

LEMMA ProgressKept ==
    ASSUME LedgerInv, LedgerInv', NEW s \in Sessions, NEW p \in Seq(Line), NEW n,
           Progress(s, p, n),
           txn'[s] = txn[s],
           \A l \in Loc : /\ pending'[s][l] = pending[s][l]
                          /\ level'[l] = level[l] \/ pending[s][l] = <<>>
    PROVE  Progress(s, p, n)'
  <1>1. \A l \in Loc : level[l] \in Int /\ level'[l] \in Int
    BY DEF LedgerInv, TypeOK
  <1>2. n \in 0 .. Len(p)
    BY DEF Progress
  <1>3. ASSUME NEW l \in Loc PROVE View(s, l)' = level'[l] + Moved(p, l, n)
    <2>1. View(s, l) = level[l] + Moved(p, l, n) /\ Moved(p, l, n) \in Int
      BY <1>2, MovedFacts DEF Progress
    <2>2. CASE pending[s][l] = <<>>
      <3>1. View(s, l) = level[l] /\ View(s, l)' = level'[l]
        BY <2>2 DEF View
      <3> QED BY <2>1, <3>1, <1>1
    <2>3. CASE pending[s][l] # <<>>
      <3>1. View(s, l)' = View(s, l) /\ level'[l] = level[l]
        BY <2>3 DEF View
      <3> QED BY <2>1, <3>1
    <2> QED BY <2>2, <2>3
  <1>4. \A k \in 1 .. n : Place(p[k]) \in Loc
    BY <1>2, PlanTyped
  <1>5. \A k \in 1 .. n : \E m \in DOMAIN pending'[s][Place(p[k])] :
          pending'[s][Place(p[k])][m].ref = p[k].ref
    <2> SUFFICES ASSUME NEW k \in 1 .. n
                 PROVE  \E m \in DOMAIN pending'[s][Place(p[k])] :
                           pending'[s][Place(p[k])][m].ref = p[k].ref
      OBVIOUS
    <2>1. pending'[s][Place(p[k])] = pending[s][Place(p[k])]
      BY <1>4
    <2> QED BY <2>1 DEF Progress
  <1>6. \A l \in Loc : \A m \in DOMAIN pending'[s][l] :
          \E k \in 1 .. n : Place(p[k]) = l /\ pending'[s][l][m].ref = p[k].ref
    <2> SUFFICES ASSUME NEW l \in Loc, NEW m \in DOMAIN pending'[s][l]
                 PROVE  \E k \in 1 .. n : Place(p[k]) = l /\ pending'[s][l][m].ref = p[k].ref
      OBVIOUS
    <2>1. pending'[s][l] = pending[s][l]
      OBVIOUS
    <2> QED BY <2>1 DEF Progress
  <1>7. /\ Len(txn'[s].todo) = Len(p) - n
        /\ \A k \in DOMAIN txn'[s].todo : txn'[s].todo[k] = p[n + k]
    BY DEF Progress
  <1> QED BY <1>2, <1>3, <1>5, <1>6, <1>7 DEF Progress

LEMMA ProgressStarts ==
    ASSUME NEW s \in Sessions, NEW p \in Seq(Line), txn'[s].todo = p,
           \A l \in Loc : pending'[s][l] = <<>>, \A l \in Loc : level'[l] \in Int
    PROVE  Progress(s, p, 0)'
  <1>1. Len(p) \in Nat /\ DOMAIN p = 1 .. Len(p) /\ DOMAIN <<>> = {}
    OBVIOUS
  <1>2. \A l \in Loc : View(s, l)' = level'[l]
    BY DEF View
  <1>3. \A l \in Loc : Moved(p, l, 0) = 0
    BY <1>1, MovedFacts
  <1>4. \A k \in DOMAIN p : p[k] = p[0 + k]
    BY <1>1
  <1>5. \A l \in Loc : View(s, l)' = level'[l] + Moved(p, l, 0)
    BY <1>2, <1>3
  <1> QED BY <1>1, <1>4, <1>5 DEF Progress

LEMMA ProgressMade ==
    ASSUME LedgerInv, NEW s \in Sessions, NEW p \in Seq(Line), NEW n, Progress(s, p, n),
           \A k \in DOMAIN p : p[k].mode = "by", RecordMovement(s)
    PROVE  Progress(s, p, n + 1)'
  <1> DEFINE m == Current(s)
             e == Entry(s, m)
             l0 == Place(m)
  <1>1. /\ txn[s].todo \in Seq(Line) /\ txn[s].todo # <<>> /\ m = txn[s].todo[1] /\ m \in Line
        /\ txn'[s].todo = Tail(txn[s].todo) /\ level' = level
        /\ l0 \in Loc /\ e \in Movement
        /\ \A l \in Loc : pending'[s][l] = IF l = l0 THEN Append(pending[s][l], e)
                                           ELSE pending[s][l]
    BY LineFacts
  <1>2. n \in 0 .. Len(p) /\ Len(p) \in Nat /\ DOMAIN p = 1 .. Len(p)
    BY DEF Progress
  <1>3. n < Len(p) /\ m = p[n + 1] /\ n + 1 \in 0 .. Len(p) /\ n + 1 \in DOMAIN p
    <2>1. Len(txn[s].todo) >= 1 /\ 1 \in DOMAIN txn[s].todo /\ Len(txn[s].todo) \in Nat
      BY <1>1, TailFacts
    <2>2. Len(txn[s].todo) = Len(p) - n /\ txn[s].todo[1] = p[n + 1]
      BY <2>1 DEF Progress
    <2>3. n < Len(p) /\ n + 1 \in 0 .. Len(p) /\ n + 1 \in DOMAIN p
      BY <2>1, <2>2, <1>2
    <2> QED BY <2>2, <2>3, <1>1
  <1>4. /\ Len(txn'[s].todo) = Len(p) - (n + 1)
        /\ \A k \in DOMAIN txn'[s].todo : txn'[s].todo[k] = p[n + 1 + k]
    <2>1. /\ Len(txn'[s].todo) = Len(txn[s].todo) - 1
          /\ DOMAIN txn'[s].todo = 1 .. Len(txn[s].todo) - 1
          /\ Len(txn[s].todo) \in Nat
          /\ \A k \in DOMAIN txn'[s].todo :
                k + 1 \in DOMAIN txn[s].todo /\ txn'[s].todo[k] = txn[s].todo[k + 1]
      BY <1>1, TailFacts
    <2>2. /\ Len(txn[s].todo) = Len(p) - n
          /\ \A k \in DOMAIN txn[s].todo : txn[s].todo[k] = p[n + k]
      BY DEF Progress
    <2>3. ASSUME NEW k \in DOMAIN txn'[s].todo PROVE txn'[s].todo[k] = p[n + 1 + k]
      <3>1. txn'[s].todo[k] = p[n + (k + 1)] /\ k \in Int
        BY <2>1, <2>2
      <3>2. n + (k + 1) = n + 1 + k
        BY <3>1, <1>2
      <3> QED BY <3>1, <3>2
    <2>4. Len(txn'[s].todo) = Len(p) - (n + 1)
      <3>1. (Len(p) - n) - 1 = Len(p) - (n + 1)
        BY <1>2
      <3>2. Len(txn'[s].todo) = (Len(p) - n) - 1
        BY <2>1, <2>2
      <3> QED BY <3>1, <3>2
    <2> QED BY <2>3, <2>4
  <1>5. e.ref = p[n + 1].ref /\ e.balance = View(s, l0) + p[n + 1].qty /\ l0 = Place(p[n + 1])
    BY <1>3 DEF Entry, Delta
  <1>6. \A l \in Loc : pending[s][l] \in Seq(Movement) /\ level[l] \in Int
    BY DEF LedgerInv, TypeOK
  <1>7. p[n + 1].qty \in Int
    BY <1>3, PlanTyped
  <1>8. /\ pending'[s][l0] = Append(pending[s][l0], e)
         /\ pending'[s][l0] # <<>> /\ pending'[s][l0][Len(pending'[s][l0])] = e
         /\ DOMAIN pending[s][l0] = 1 .. Len(pending[s][l0])
         /\ DOMAIN pending'[s][l0] = 1 .. Len(pending[s][l0]) + 1
         /\ Len(pending[s][l0]) \in Nat
         /\ pending'[s][l0][Len(pending[s][l0]) + 1] = e
         /\ \A i \in DOMAIN pending[s][l0] :
               i \in DOMAIN pending'[s][l0] /\ pending'[s][l0][i] = pending[s][l0][i]
    <2>1. pending'[s][l0] = Append(pending[s][l0], e)
      BY <1>1
    <2>2. pending[s][l0] \in Seq(Movement) /\ e \in Movement
      BY <1>1, <1>6
    <2> HIDE DEF e, l0
    <2> QED BY <2>1, <2>2, AppendFacts
  <1>9. \A l \in Loc : l # l0 => pending'[s][l] = pending[s][l]
    BY <1>1
  <1> HIDE DEF m, e, l0
  <1>10. ASSUME NEW l \in Loc PROVE View(s, l)' = level'[l] + Moved(p, l, n + 1)
    <2>1. /\ View(s, l) = level[l] + Moved(p, l, n) /\ Moved(p, l, n) \in Int
          /\ Moved(p, l, n + 1) =
                Moved(p, l, n) + (IF Place(p[n + 1]) = l THEN p[n + 1].qty ELSE 0)
      BY <1>2, <1>3, MovedFacts DEF Progress
    <2>2. CASE l = l0
      <3>1. View(s, l)' = e.balance
        BY <2>2, <1>8 DEF View
      <3>2. Moved(p, l, n + 1) = Moved(p, l, n) + p[n + 1].qty
        BY <2>1, <2>2, <1>5
      <3>3. View(s, l)' = (level[l] + Moved(p, l, n)) + p[n + 1].qty
        BY <3>1, <2>1, <2>2, <1>5
      <3> QED BY <2>1, <3>2, <3>3, <1>1, <1>6, <1>7
    <2>3. CASE l # l0
      <3>1. View(s, l)' = View(s, l)
        BY <2>3, <1>1, <1>9 DEF View
      <3>2. Moved(p, l, n + 1) = Moved(p, l, n)
        BY <2>1, <2>3, <1>5
      <3> QED BY <3>1, <3>2, <2>1, <1>1
    <2> QED BY <2>2, <2>3
  <1>11. ASSUME NEW l \in Loc, NEW i \in DOMAIN pending'[s][l]
        PROVE  \E k \in 1 .. n + 1 : Place(p[k]) = l /\ pending'[s][l][i].ref = p[k].ref
    <2>1. CASE i \in DOMAIN pending[s][l] /\ pending'[s][l][i] = pending[s][l][i]
      <3>1. PICK k \in 1 .. n : Place(p[k]) = l /\ pending[s][l][i].ref = p[k].ref
        BY <2>1 DEF Progress
      <3> QED BY <2>1, <3>1, <1>2
    <2>2. CASE l = l0 /\ pending'[s][l][i] = e
      <3>1. n + 1 \in 1 .. n + 1
        BY <1>2
      <3> QED BY <2>2, <3>1, <1>5
    <2>3. CASE l # l0
      <3>1. i \in DOMAIN pending[s][l] /\ pending'[s][l][i] = pending[s][l][i]
        BY <2>3, <1>9, <1>11
      <3> QED BY <3>1, <2>1
    <2>4. CASE l = l0
      <3>1. i \in DOMAIN pending[s][l] \/ i = Len(pending[s][l]) + 1
        BY <2>4, <1>11, <1>8
      <3> QED BY <2>4, <3>1, <2>1, <2>2, <1>8
    <2> QED BY <2>3, <2>4
  <1>12. ASSUME NEW k \in 1 .. n + 1
         PROVE  \E i \in DOMAIN pending'[s][Place(p[k])] :
                   pending'[s][Place(p[k])][i].ref = p[k].ref
    <2>1. CASE k = n + 1
      <3>1. Len(pending[s][l0]) + 1 \in DOMAIN pending'[s][l0]
        BY <1>8
      <3> QED BY <2>1, <3>1, <1>5, <1>8
    <2>2. CASE k # n + 1
      <3>1. k \in 1 .. n /\ Place(p[k]) \in Loc
        BY <2>2, <1>2, PlanTyped
      <3>2. PICK i \in DOMAIN pending[s][Place(p[k])] :
               pending[s][Place(p[k])][i].ref = p[k].ref
        BY <3>1 DEF Progress
      <3> QED BY <3>1, <3>2, <1>8, <1>9
    <2> QED BY <2>1, <2>2
  <1> QED BY <1>3, <1>4, <1>10, <1>11, <1>12 DEF Progress

\* What a step leaves of the work of a request that goes on.
LEMMA HalfDoneKept ==
    ASSUME DocsInv, HalfDone, [Next]_vars
    PROVE  HalfDone'
  <1>1. DocTypes /\ RequestsFit /\ DocsApart /\ LedgerInv /\ TypeOK
    BY DEF DocsInv, OversellInv, LedgerInv
  <1>2. DocStep /\ DocsInv' /\ LedgerInv' /\ DocTypes' /\ RequestsFit'
    BY DocSteps DEF DocsInv, OversellInv
  <1>3. Idle.op = "idle" /\ Idle.doc = NoDoc /\ "idle" \notin TransferOps
        /\ "import" \notin TransferOps
    BY DEF Idle, TransferOps
  <1> SUFFICES ASSUME NEW s \in Sessions, txn'[s].op \in TransferOps
               PROVE  \E p \in Seq(Line), n \in Nat :
                         p = Plan(txn[s].op, txn[s].doc)' /\ Progress(s, p, n)'
    BY DEF HalfDone
  <1> DEFINE op == txn[s].op
             t == txn[s].doc
  \* A request that is not at work in this step.
  <1>4. ASSUME txn'[s] = txn[s], transfer'[t] = transfer[t],
               \A l \in Loc : /\ pending'[s][l] = pending[s][l]
                              /\ level'[l] = level[l] \/ pending[s][l] = <<>>
        PROVE  \E p \in Seq(Line), n \in Nat :
                  p = Plan(txn[s].op, txn[s].doc)' /\ Progress(s, p, n)'
    <2>1. PICK p \in Seq(Line), n \in Nat : p = Plan(op, t) /\ Progress(s, p, n)
      BY <1>4 DEF HalfDone
    <2>2. Progress(s, p, n)'
      BY <1>1, <1>2, <1>4, <2>1, ProgressKept
    <2>3. Plan(txn[s].op, txn[s].doc)' = p
      BY <1>4, <2>1, SamePlan
    <2> QED BY <2>2, <2>3
  <1>5. txn[s].op \in TransferOps => t \in Transfers /\ transfer[t] # NoDoc
    BY <1>1, PlanFacts DEF RequestsFit
  <1>6. CASE Calm
    BY <1>4, <1>6 DEF Calm
  <1>7. CASE Created
    <2>1. txn'[s] = txn[s] /\ level' = level /\ pending' = pending
      BY <1>7 DEF Created
    <2>2. transfer'[t] = transfer[t]
      BY <1>1, <1>5, <1>7, <2>1 DEF Created, DocTypes
    <2> QED BY <1>4, <2>1, <2>2
  <1>8. ASSUME NEW r \in Sessions, Begun(r)
        PROVE  \E p \in Seq(Line), n \in Nat :
                  p = Plan(txn[s].op, txn[s].doc)' /\ Progress(s, p, n)'
    <2>1. /\ transfer' = transfer /\ level' = level /\ pending' = pending
          /\ \A q \in Sessions : q # r => txn'[q] = txn[q]
      BY <1>8 DEF Begun
    <2>2. CASE r # s
      BY <1>4, <2>1, <2>2
    <2>3. CASE r = s
      <3>1. PICK o, d : o = txn'[s].op /\ d = txn'[s].doc
        OBVIOUS
      <3>2. txn[s].op = "idle" /\ txn'[s].todo = Plan(o, d) /\ o \in TransferOps
        BY <1>8, <2>3, <3>1 DEF Begun
      <3>3. Fits(o, d)
        <4>1. Fits(txn[s].op, txn[s].doc)'
          BY <1>2 DEF RequestsFit
        <4> QED BY <4>1, <2>1, <3>1, <3>2 DEF Fits, StatusOf, TransferOps
      <3>4. PICK p \in Seq(Line) : p = Plan(o, d)
        BY <1>1, <3>2, <3>3, PlanFacts
      <3>5. \A l \in Loc : pending'[s][l] = <<>>
        BY <1>1, <2>1, <3>2 DEF LedgerInv, LocksExclude
      <3>6. \A l \in Loc : level'[l] \in Int
        BY <1>2 DEF LedgerInv, TypeOK
      <3>7. Progress(s, p, 0)'
        BY <3>2, <3>4, <3>5, <3>6, ProgressStarts
      <3>8. Plan(txn[s].op, txn[s].doc)' = p
        BY <2>1, <3>1, <3>4, SamePlan
      <3> QED BY <3>7, <3>8
    <2> QED BY <2>2, <2>3
  <1>9. ASSUME NEW r \in Sessions, Lined(r)
        PROVE  \E p \in Seq(Line), n \in Nat :
                  p = Plan(txn[s].op, txn[s].doc)' /\ Progress(s, p, n)'
    <2>1. /\ transfer' = transfer /\ level' = level
          /\ \A q \in Sessions : q # r => txn'[q] = txn[q]
          /\ txn'[r].op = txn[r].op /\ txn'[r].doc = txn[r].doc
          /\ SkipImportRow(r) => pending' = pending /\ txn[r].op = "import"
          /\ RecordMovement(r) => \A q \in Sessions, l \in Loc :
                q # r => pending'[q][l] = pending[q][l]
      <3>1. RecordMovement(r) \/ SkipImportRow(r)
        BY <1>9 DEF Lined
      <3>2. transfer' = transfer
        BY <1>9 DEF Lined
      <3> QED BY <1>1, <3>1, <3>2, LineFacts
    <2>2. CASE r # s
      <3>1. \A l \in Loc : pending'[s][l] = pending[s][l]
        BY <2>1, <2>2, <1>9 DEF Lined
      <3> QED BY <1>4, <2>1, <2>2, <3>1
    <2>3. CASE r = s
      <3>1. RecordMovement(s) /\ op \in TransferOps
        BY <1>3, <1>9, <2>1, <2>3 DEF Lined
      <3>2. PICK p \in Seq(Line), n \in Nat : p = Plan(op, t) /\ Progress(s, p, n)
        BY <3>1 DEF HalfDone
      <3>3. \A k \in DOMAIN p : p[k].mode = "by"
        BY <1>1, <3>1, <3>2, PlanFacts DEF RequestsFit
      <3>4. Progress(s, p, n + 1)'
        BY <1>1, <3>1, <3>2, <3>3, ProgressMade
      <3>5. Plan(txn[s].op, txn[s].doc)' = p
        BY <2>1, <2>3, <3>2, SamePlan
      <3> QED BY <3>4, <3>5
    <2> QED BY <2>2, <2>3
  <1>10. ASSUME NEW r \in Sessions, Dropped(r) \/ Published(r)
         PROVE  \E p \in Seq(Line), n \in Nat :
                   p = Plan(txn[s].op, txn[s].doc)' /\ Progress(s, p, n)'
    <2>1. /\ \A q \in Sessions : txn'[q] = IF q = r THEN Idle ELSE txn[q]
          /\ \A q \in Sessions, l \in Loc :
                pending'[q][l] = IF q = r THEN <<>> ELSE pending[q][l]
      <3>1. End(r)
        BY <1>10 DEF Dropped, Published, Publish
      <3> QED BY <1>1, <3>1, EndFacts
    <2>2. r # s /\ txn'[s] = txn[s] /\ \A l \in Loc : pending'[s][l] = pending[s][l]
      BY <1>3, <2>1
    <2>3. \A l \in Loc : level'[l] = level[l] \/ pending[s][l] = <<>>
      <3>1. CASE Dropped(r)
        BY <3>1 DEF Dropped
      <3>2. CASE Published(r)
        <4> SUFFICES ASSUME NEW l \in Loc, pending[s][l] # <<>> PROVE level'[l] = level[l]
          OBVIOUS
        <4>1. pending[r][l] = <<>>
          BY <1>1, <2>2, PendingDisjoint
        <4>2. level'[l] = View(r, l)
          BY <3>2 DEF Published, Publish
        <4> QED BY <4>1, <4>2 DEF View
      <3> QED BY <1>10, <3>1, <3>2
    <2>4. transfer'[t] = transfer[t]
      <3>1. op \in TransferOps /\ t \in Transfers
        BY <1>5, <2>2
      <3>2. txn[r].doc # t
        BY <1>1, <2>2, <3>1, DocSets DEF DocsApart
      <3> QED BY <1>1, <1>10, <3>1, <3>2 DEF Dropped, Published, DocTypes
    <2> QED BY <1>4, <2>2, <2>3, <2>4
  <1> QED BY <1>2, <1>6, <1>7, <1>8, <1>9, <1>10 DEF DocStep

\* A finished plan has moved everything the transfer carries.
LEMMA WholePlan ==
    ASSUME DocTypes, NEW op \in TransferOps, NEW t, Fits(op, t), NEW l \in Loc,
           NEW p \in Seq(Line), p = Plan(op, t)
    PROVE  Moved(p, l, Len(p)) = IF Moves(op, t) /\ l[1] = Site(op, t)
                                 THEN Sign(op) * Carried(t, l[2]) ELSE 0
  <1>1. t \in Transfers /\ transfer[t] \in Transfer
    BY PlanFacts
  <1>2. /\ Len(p) \in Nat /\ DOMAIN p = 1 .. Len(p)
    BY PlanTyped
  <1>3. Moves(op, t) => Mirrors(p, op, t)
    BY PlanFacts
  <1>4. CASE ~ Moves(op, t)
    <2>1. p = <<>>
      BY <1>4, PlanFacts
    <2>2. Len(p) = 0
      BY <2>1
    <2>3. Moved(p, l, 0) = 0
      BY <1>2, MovedFacts
    <2> QED BY <1>4, <2>2, <2>3
  <1>5. CASE Moves(op, t)
    <2> DEFINE rows == transfer[t].rows
               f == Amounts(rows, l[2])
               g == Share(p, l)
               c == IF l[1] = Site(op, t) THEN Sign(op) ELSE 0
    <2>1. rows \in Rows
      BY <1>1 DEF Transfer
    <2>2. /\ Len(rows) \in Nat /\ DOMAIN rows = 1 .. Len(rows)
          /\ \A k \in DOMAIN rows : rows[k].item \in Items /\ rows[k].qty \in Int
      BY <2>1, TypedRows
    <2>3. /\ Len(p) = Len(rows) /\ DOMAIN p = DOMAIN rows
          /\ \A k \in DOMAIN rows : /\ p[k].qty = Sign(op) * rows[k].qty
                                    /\ Place(p[k]) = <<Site(op, t), rows[k].item>>
      BY <1>5, <1>3 DEF Mirrors
    <2>4. c \in {-1, 0, 1} /\ Sign(op) \in {-1, 1}
      BY DEF Sign
    <2>5. l = <<l[1], l[2]>>
      BY LocFacts
    <2>6. ASSUME NEW k \in DOMAIN rows
          PROVE  f[k] \in Int /\ g[k] = c * f[k]
      <3>1. f[k] = (IF rows[k].item = l[2] THEN rows[k].qty ELSE 0)
        BY DEF Amounts
      <3>2. g[k] = (IF Place(p[k]) = l THEN p[k].qty ELSE 0)
        BY <2>3 DEF Share
      <3>3. Place(p[k]) = l <=> l[1] = Site(op, t) /\ l[2] = rows[k].item
        BY <2>3, <2>5
      <3>4. rows[k].qty \in Int /\ p[k].qty = Sign(op) * rows[k].qty
        BY <2>2, <2>3
      <3> HIDE DEF rows, f, g
      <3>5. CASE l[1] = Site(op, t) /\ rows[k].item = l[2]
        BY <3>1, <3>2, <3>3, <3>4, <3>5
      <3>6. CASE l[1] = Site(op, t) /\ rows[k].item # l[2]
        BY <3>1, <3>2, <3>3, <3>6, <2>4
      <3>7. CASE l[1] # Site(op, t)
        BY <3>1, <3>2, <3>3, <3>4, <3>7
      <3> QED BY <3>5, <3>6, <3>7
    <2>7. IsFiniteSet(DOMAIN rows)
      <3>1. IsFiniteSet(1 .. Len(rows))
        <4>1. PICK n \in Nat : n = Len(rows)
          BY <2>2
        <4>2. IsFiniteSet(1 .. n)
          BY FS_Interval
        <4> QED BY <4>1, <4>2
      <3> QED BY <2>2, <3>1
    <2>8. \A k \in DOMAIN rows : f[k] \in Int /\ g[k] = c * f[k]
      BY <2>6
    <2> HIDE DEF f, g, c, rows
    <2>9. SumOf(g, DOMAIN rows) = c * SumOf(f, DOMAIN rows) /\ SumOf(f, DOMAIN rows) \in Int
      <3>1. SumOf(g, DOMAIN rows) = c * SumOf(f, DOMAIN rows)
        BY <2>4, <2>7, <2>8, SumScale
      <3> QED BY <3>1, <2>7, <2>8, SumType
    <2>10. Moved(p, l, Len(p)) = SumOf(g, DOMAIN rows)
      BY <2>2, <2>3 DEF Moved, g
    <2>11. Carried(t, l[2]) = SumOf(f, DOMAIN rows)
      BY DEF Carried, f, rows
    <2> QED BY <1>5, <2>9, <2>10, <2>11 DEF c
  <1> QED BY <1>4, <1>5

\* So a request for a transfer publishes the whole transfer or none of it.
Shifted(op, t) ==
    level' = [l \in Loc |-> IF Moves(op, t) /\ l[1] = Site(op, t)
                            THEN level[l] + Sign(op) * Carried(t, l[2]) ELSE level[l]]

Settled(op, t) ==
    transfer' = [transfer EXCEPT ![t] = [transfer[t] EXCEPT !.status = NewStatus[op]]]
Wrote(s, op, t) == \E p \in Seq(Line) :
    /\ p = Plan(op, t)
    /\ \A l \in Loc : \A m \in DOMAIN pending[s][l] :
          \E k \in DOMAIN p : Place(p[k]) = l /\ pending[s][l][m].ref = p[k].ref
    /\ \A k \in DOMAIN p : \E m \in DOMAIN pending[s][Place(p[k])] :
          pending[s][Place(p[k])][m].ref = p[k].ref

LEMMA WholeTransfer ==
    ASSUME DocsInv, HalfDone, NEW s \in Sessions, Published(s), NEW op \in TransferOps,
           NEW t, op = txn[s].op, t = txn[s].doc
    PROVE  /\ Fits(op, t) /\ t \in Transfers
           /\ Shifted(op, t) /\ Settled(op, t) /\ Wrote(s, op, t)
  <1>1. DocTypes /\ RequestsFit /\ TypeOK
    BY DEF DocsInv, OversellInv, LedgerInv
  <1>2. Fits(op, t) /\ t \in Transfers
    BY <1>1, PlanFacts DEF RequestsFit
  <1>3. PICK p \in Seq(Line), n \in Nat : p = Plan(op, t) /\ Progress(s, p, n)
    BY DEF HalfDone
  <1>4. n = Len(p) /\ DOMAIN p = 1 .. n
    <2>1. txn[s].todo = <<>>
      BY DEF Published, Publish, Finished
    <2>2. Len(txn[s].todo) = 0
      BY <2>1
    <2>3. n \in 0 .. Len(p) /\ Len(txn[s].todo) = Len(p) - n
      BY <1>3 DEF Progress
    <2> QED BY <2>2, <2>3, PlanTyped
  <1>5. /\ \A l \in Loc : View(s, l) = level[l] + Moved(p, l, Len(p)) /\ level[l] \in Int
    BY <1>1, <1>3, <1>4 DEF Progress, TypeOK
  <1>6. level' = [l \in Loc |-> View(s, l)]
    BY DEF Published, Publish
  <1>7. \A l \in Loc : View(s, l) = IF Moves(op, t) /\ l[1] = Site(op, t)
                                    THEN level[l] + Sign(op) * Carried(t, l[2]) ELSE level[l]
    <2> SUFFICES ASSUME NEW l \in Loc
                 PROVE  View(s, l) = IF Moves(op, t) /\ l[1] = Site(op, t)
                                     THEN level[l] + Sign(op) * Carried(t, l[2]) ELSE level[l]
      OBVIOUS
    <2>1. Moved(p, l, Len(p)) = IF Moves(op, t) /\ l[1] = Site(op, t)
                                THEN Sign(op) * Carried(t, l[2]) ELSE 0
      BY <1>1, <1>2, <1>3, WholePlan
    <2> QED BY <2>1, <1>5
  <1>8. Shifted(op, t)
    BY <1>6, <1>7 DEF Shifted
  <1>9. Settled(op, t)
    BY DEF Published, Settled
  <1>10. /\ \A l \in Loc : \A m \in DOMAIN pending[s][l] :
              \E k \in DOMAIN p : Place(p[k]) = l /\ pending[s][l][m].ref = p[k].ref
        /\ \A k \in DOMAIN p : \E m \in DOMAIN pending[s][Place(p[k])] :
              pending[s][Place(p[k])][m].ref = p[k].ref
    <2>1. /\ \A l \in Loc : \A m \in DOMAIN pending[s][l] :
                \E k \in 1 .. n : Place(p[k]) = l /\ pending[s][l][m].ref = p[k].ref
          /\ \A k \in 1 .. n : \E m \in DOMAIN pending[s][Place(p[k])] :
                pending[s][Place(p[k])][m].ref = p[k].ref
      BY <1>3 DEF Progress
    <2>2. DOMAIN p = 1 .. n
      BY <1>4
    <2> QED BY <2>1, <2>2, ZenonT(30)
  <1>11. Wrote(s, op, t)
    BY <1>3, <1>10 DEF Wrote
  <1> QED BY <1>2, <1>9, <1>8, <1>11

-----------------------------------------------------------------------------
(* Transfers are hand-overs                                                *)

LEMMA CarriedIsCarries ==
    ASSUME NEW t, NEW i, IsFiniteSet(DOMAIN transfer[t].rows)
    PROVE  Custody!Carries(t, i) = Carried(t, i)
  <1> DEFINE rows == transfer[t].rows
             S == DOMAIN rows
             f == Amounts(rows, i)
             Fold(g) == g = [s \in SUBSET S |->
                               IF s = {} THEN 0
                               ELSE (IF rows[Pick(s)].item = i THEN rows[Pick(s)].qty ELSE 0)
                                    + g[s \ {Pick(s)}]]
             h == CHOOSE g : Fold(g)
  <1>1. Custody!Carries(t, i) = h[S]
    BY DEF Custody!Carries, Custody!MapThenSumSet, Custody!MapThenFoldSet, Pick
  <1>2. ASSUME NEW s \in SUBSET S, s # {}
        PROVE  f[Pick(s)] = (IF rows[Pick(s)].item = i THEN rows[Pick(s)].qty ELSE 0)
    <2>1. Pick(s) \in S
      BY <1>2 DEF Pick
    <2> QED BY <2>1 DEF Amounts
  <1>3. \A g : Fold(g) <=> IsSum(f, S, g)
    BY <1>2 DEF IsSum
  <1>4. IsSum(f, S, PartialSums(f, S))
    BY SumExists
  <1>5. IsSum(f, S, h)
    BY <1>3, <1>4
  <1>6. IsFiniteSet(S)
    OBVIOUS
  <1> HIDE DEF f, h, S
  <1>7. h[S] = PartialSums(f, S)[S]
    BY <1>4, <1>5, <1>6, SumIsUnique
  <1>8. SumOf(f, S) = PartialSums(f, S)[S]
    BY SumIsFold
  <1> QED BY <1>1, <1>7, <1>8 DEF f, S, Carried

LEMMA HandOver ==
    ASSUME DocsInv, HalfDone, [Next]_vars
    PROVE  [Custody!CustodyNext]_(Custody!custodyVars)
  <1>1. DocTypes
    BY DEF DocsInv
  <1>2. DocStep
    BY DocSteps
  <1>3. CASE transfer' = transfer
    BY <1>3 DEF Custody!CustodyNext, Custody!Other
  <1>4. CASE Created
    <2>1. PICK t \in Transfers, d \in Transfer :
             /\ transfer[t] = NoDoc /\ d.status = "draft" /\ d.from # d.to
             /\ transfer' = [transfer EXCEPT ![t] = d] /\ level' = level
      BY <1>4 DEF Created
    <2>2. Custody!Draft(t)
      BY <2>1 DEF Custody!Draft, Custody!Status
    <2> QED BY <2>2 DEF Custody!CustodyNext
  <1>5. ASSUME NEW s \in Sessions, Published(s), txn[s].op \in TransferOps
        PROVE  Custody!CustodyNext
    <2>1. PICK op \in TransferOps : op = txn[s].op
      BY <1>5
    <2>2. PICK t : t = txn[s].doc
      OBVIOUS
    <2>3. Published(s) /\ DocsInv /\ HalfDone
      BY <1>5
    <2>4. Fits(op, t)
      BY <2>1, <2>2, <2>3, WholeTransfer
    <2>5. t \in Transfers
      BY <2>1, <2>2, <2>3, WholeTransfer
    <2>6. Shifted(op, t)
      BY <2>1, <2>2, <2>3, WholeTransfer
    <2>7. /\ Fits(op, t) /\ t \in Transfers /\ Shifted(op, t)
          /\ transfer' = [transfer EXCEPT ![t] = [transfer[t] EXCEPT !.status = NewStatus[op]]]
      BY <1>5, <2>1, <2>2, <2>4, <2>5, <2>6 DEF Published
    <2>8. transfer[t] # NoDoc /\ transfer[t] \in Transfer /\ transfer[t].rows \in Rows
      BY <1>1, <2>7, PlanFacts DEF Transfer
    <2>9. IsFiniteSet(DOMAIN transfer[t].rows)
      <3>1. PICK n \in Nat : DOMAIN transfer[t].rows = 1 .. n
        BY <2>8, TypedRows
      <3>2. IsFiniteSet(1 .. n)
        BY FS_Interval
      <3> QED BY <3>1, <3>2
    <2>10. \A l \in Loc : Carried(t, l[2]) = Custody!Carries(t, l[2])
      BY <2>9, CarriedIsCarries
    <2>11. Moves(op, t) => Custody!Shift(t, Site(op, t), Sign(op))
      <3>1. Moves(op, t) => level' = [l \in Loc |->
                 IF l[1] = Site(op, t)
                 THEN level[l] + Sign(op) * Custody!Carries(t, l[2]) ELSE level[l]]
        BY <2>7, <2>10 DEF Shifted
      <3> QED BY <3>1 DEF Custody!Shift, Loc
    <2>12. Custody!Becomes(t, NewStatus[op]) /\ Custody!Status(t) = transfer[t].status
      BY <2>7, <2>8 DEF Custody!Becomes, Custody!Status
    <2>13. CASE op = "dispatch"
      <3>1. Site(op, t) = transfer[t].from /\ Sign(op) = -1 /\ Moves(op, t)
            /\ NewStatus[op] = "dispatched" /\ transfer[t].status = "draft"
        BY <2>7, <2>8, <2>13 DEF Site, Sign, Moves, NewStatus, Fits, StatusOf
      <3>2. Custody!Ship(t)
        BY <2>11, <2>12, <3>1 DEF Custody!Ship
      <3> QED BY <2>7, <3>2 DEF Custody!CustodyNext
    <2>14. CASE op = "receive"
      <3>1. Site(op, t) = transfer[t].to /\ Sign(op) = 1 /\ Moves(op, t)
            /\ NewStatus[op] = "received" /\ transfer[t].status = "dispatched"
        BY <2>7, <2>8, <2>14 DEF Site, Sign, Moves, NewStatus, Fits, StatusOf
      <3>2. Custody!Deliver(t)
        BY <2>11, <2>12, <3>1 DEF Custody!Deliver
      <3> QED BY <2>7, <3>2 DEF Custody!CustodyNext
    <2>15. CASE op = "cancel" /\ transfer[t].status = "dispatched"
      <3>1. Site(op, t) = transfer[t].from /\ Sign(op) = 1 /\ Moves(op, t)
            /\ NewStatus[op] = "cancelled"
        BY <2>15 DEF Site, Sign, Moves, NewStatus
      <3>2. Custody!Return(t)
        BY <2>11, <2>12, <2>15, <3>1 DEF Custody!Return
      <3> QED BY <2>7, <3>2 DEF Custody!CustodyNext
    <2>16. CASE op = "cancel" /\ transfer[t].status # "dispatched"
      <3>1. ~ Moves(op, t) /\ NewStatus[op] = "cancelled" /\ transfer[t].status = "draft"
        BY <2>7, <2>8, <2>16 DEF Moves, NewStatus, Fits, StatusOf
      <3>2. level' = level
        <4>1. level' = [l \in Loc |-> level[l]]
          BY <2>7, <3>1 DEF Shifted
        <4>2. level \in [Loc -> Int]
          BY DEF DocsInv, OversellInv, LedgerInv, TypeOK
        <4> QED BY <4>1, <4>2
      <3>3. Custody!Withdraw(t)
        BY <2>12, <3>1, <3>2 DEF Custody!Withdraw
      <3> QED BY <2>7, <3>3 DEF Custody!CustodyNext
    <2> QED BY <2>13, <2>14, <2>15, <2>16 DEF TransferOps
  <1>6. DocStep => \/ transfer' = transfer \/ Created
                   \/ \E s \in Sessions : Published(s) /\ txn[s].op \in TransferOps
    BY DEF DocStep, Calm, Begun, Lined, Dropped, Published
  <1> QED BY <1>2, <1>3, <1>4, <1>5, <1>6

LEMMA InitHalfDone ==
    ASSUME Init PROVE HalfDone
  <1>1. \A s \in Sessions : txn[s].op \notin TransferOps
    BY DEF Init, InitLedger, Idle, TransferOps
  <1> QED BY <1>1 DEF HalfDone

\* A request has posted just the rows it is done with, and sees what is committed
\* changed by just those: the inductive part that makes a hand-over whole.
THEOREM TransfersHalfDone == DocSpec => [](DocsInv /\ HalfDone)
  <1>1. Init => DocsInv /\ HalfDone
    BY InitDocsInv, InitHalfDone
  <1>2. DocsInv /\ HalfDone /\ [Next]_vars => (DocsInv /\ HalfDone)'
    <2>1. DocsInv /\ HalfDone /\ [Next]_vars => DocsInv' /\ HalfDone'
      BY DocSteps, HalfDoneKept
    <2> QED BY <2>1
  <1> QED BY <1>1, <1>2, PTL DEF DocSpec

\* Although dispatch_transfer, receive_transfer and cancel_transfer post row by
\* row while other requests run, stock changes as if the goods of a transfer were
\* handed over at once: each step is one of StockCustody, or leaves transfers be.
THEOREM TransfersHandOver == DocSpec => TransfersAreHandOvers
  <1>1. Init => Custody!CustodyInit
    BY DEF Init, Custody!CustodyInit
  <1>2. DocsInv /\ HalfDone /\ [Next]_vars => [Custody!CustodyNext]_(Custody!custodyVars)
    BY HandOver
  <1> QED BY <1>1, <1>2, TransfersHalfDone, PTL
      DEF DocSpec, TransfersAreHandOvers, Custody!CustodySpec

-----------------------------------------------------------------------------
(* Nothing is lost on the way                                              *)

\* What the movements of other documents than transfers add up to.
OtherMoves(h) == {n \in DOMAIN h : h[n].ref.doc \notin Transfers}
Quantities(h) == [n \in DOMAIN h |-> h[n].qty]
Net(h) == SumOf(Quantities(h), OtherMoves(h))

\* What a request has written at a location, if it is not about a transfer, is the
\* difference between the level it sees and the committed one.
PendingNet == \A s \in Sessions, l \in Loc :
    Net(hist[l] \o pending[s][l]) =
       Net(hist[l]) + (IF txn[s].doc \in Transfers THEN 0 ELSE View(s, l) - level[l])

LEMMA NetFacts ==
    ASSUME NEW h \in Seq(Movement)
    PROVE  /\ Net(h) \in Int
           /\ IsFiniteSet(OtherMoves(h))
           /\ \A n \in OtherMoves(h) : Quantities(h)[n] \in Int
           /\ h \o <<>> = h
  <1>1. PICK n \in Nat : DOMAIN h = 1 .. n /\ \A k \in 1 .. n : h[k] \in Movement
    <2>1. Len(h) \in Nat /\ DOMAIN h = 1 .. Len(h) /\ \A k \in 1 .. Len(h) : h[k] \in Movement
      OBVIOUS
    <2> QED BY <2>1
  <1>2. IsFiniteSet(OtherMoves(h))
    <2>1. IsFiniteSet(1 .. n) /\ OtherMoves(h) \subseteq 1 .. n
      BY <1>1, FS_Interval DEF OtherMoves
    <2> QED BY <2>1, FS_Subset
  <1>3. \A k \in OtherMoves(h) : Quantities(h)[k] \in Int
    BY <1>1 DEF OtherMoves, Quantities, Movement
  <1>4. Net(h) \in Int
    BY <1>2, <1>3, SumType DEF Net
  <1>5. h \o <<>> = h
    OBVIOUS
  <1> QED BY <1>2, <1>3, <1>4, <1>5

LEMMA NetAppend ==
    ASSUME NEW h \in Seq(Movement), NEW e \in Movement
    PROVE  Net(Append(h, e)) = Net(h) + (IF e.ref.doc \in Transfers THEN 0 ELSE e.qty)
  <1> DEFINE g == Append(h, e)
             n == Len(h) + 1
  <1>1. /\ g \in Seq(Movement) /\ Len(h) \in Nat /\ DOMAIN h = 1 .. Len(h)
        /\ DOMAIN g = 1 .. n /\ g[n] = e /\ \A k \in DOMAIN h : g[k] = h[k]
    BY AppendFacts
  <1> HIDE DEF g
  <1>2. n \notin DOMAIN h /\ DOMAIN g = DOMAIN h \cup {n}
    BY <1>1
  <1> HIDE DEF n
  <1>3. SumOf(Quantities(g), OtherMoves(h)) = Net(h)
    <2>1. \A k \in OtherMoves(h) : Quantities(g)[k] = Quantities(h)[k]
      BY <1>1, <1>2 DEF OtherMoves, Quantities
    <2> QED BY <2>1, NetFacts, SumSame DEF Net
  <1>4. CASE e.ref.doc \in Transfers
    <2>1. OtherMoves(g) = OtherMoves(h)
      BY <1>1, <1>2, <1>4 DEF OtherMoves
    <2> QED BY <2>1, <1>3, <1>4, NetFacts DEF Net, g
  <1>5. CASE e.ref.doc \notin Transfers
    <2>1. OtherMoves(g) = OtherMoves(h) \cup {n} /\ n \notin OtherMoves(h)
      BY <1>1, <1>2, <1>5 DEF OtherMoves
    <2>2. IsFiniteSet(OtherMoves(h)) /\ Net(h) \in Int
      BY NetFacts
    <2>3. \A k \in OtherMoves(g) : Quantities(g)[k] \in Int
      BY <1>1, NetFacts
    <2>4. \A k \in OtherMoves(h) \cup {n} : Quantities(g)[k] \in Int
      BY <2>1, <2>3
    <2>5. SumOf(Quantities(g), OtherMoves(h) \cup {n}) =
             Quantities(g)[n] + SumOf(Quantities(g), OtherMoves(h))
      BY <2>1, <2>2, <2>4, SumAdd
    <2>6. Quantities(g)[n] = e.qty /\ e.qty \in Int
      BY <1>1, <1>2 DEF Quantities, Movement
    <2>7. Net(g) = e.qty + Net(h)
      BY <2>1, <2>5, <2>6, <1>3 DEF Net
    <2> QED BY <2>2, <2>6, <2>7, <1>5 DEF g
  <1> QED BY <1>4, <1>5

\* What a step does to what a request has written.
LEMMA PendingSteps ==
    ASSUME DocsInv, DocStep, NEW s \in Sessions, NEW l \in Loc, pending'[s][l] # <<>>
    PROVE  /\ txn'[s].doc = txn[s].doc /\ level'[l] = level[l] /\ hist'[l] = hist[l]
           /\ \/ pending'[s][l] = pending[s][l]
              \/ /\ RecordMovement(s) /\ l = Place(Current(s))
                 /\ pending'[s][l] = Append(pending[s][l], Entry(s, Current(s)))
  <1>1. LedgerInv /\ LocksExclude
    BY DEF DocsInv, OversellInv, LedgerInv
  <1>2. CASE Calm \/ Created
    BY <1>2 DEF Calm, Created
  <1>3. ASSUME NEW r \in Sessions, Begun(r)
        PROVE  /\ txn'[s].doc = txn[s].doc /\ level'[l] = level[l] /\ hist'[l] = hist[l]
               /\ pending'[s][l] = pending[s][l]
    BY <1>1, <1>3 DEF Begun, LocksExclude
  <1>4. ASSUME NEW r \in Sessions, Lined(r)
        PROVE  /\ txn'[s].doc = txn[s].doc /\ level'[l] = level[l] /\ hist'[l] = hist[l]
               /\ \/ pending'[s][l] = pending[s][l]
                  \/ /\ RecordMovement(s) /\ l = Place(Current(s))
                     /\ pending'[s][l] = Append(pending[s][l], Entry(s, Current(s)))
    <2>1. RecordMovement(r) \/ SkipImportRow(r)
      BY <1>4 DEF Lined
    <2>2. /\ txn'[r].doc = txn[r].doc
          /\ \A q \in Sessions : q # r => txn'[q] = txn[q]
          /\ level' = level /\ hist' = hist
          /\ SkipImportRow(r) => pending' = pending
          /\ RecordMovement(r) => \A q \in Sessions, k \in Loc : pending'[q][k] =
                IF q = r /\ k = Place(Current(r))
                THEN Append(pending[r][k], Entry(r, Current(r))) ELSE pending[q][k]
      BY <1>1, <2>1, LineFacts
    <2> QED BY <2>1, <2>2
  <1>5. ASSUME NEW r \in Sessions, Dropped(r) \/ Published(r)
        PROVE  /\ txn'[s].doc = txn[s].doc /\ level'[l] = level[l] /\ hist'[l] = hist[l]
               /\ pending'[s][l] = pending[s][l]
    <2>1. /\ \A q \in Sessions : txn'[q] = IF q = r THEN Idle ELSE txn[q]
          /\ \A q \in Sessions, k \in Loc :
                pending'[q][k] = IF q = r THEN <<>> ELSE pending[q][k]
      <3>1. End(r)
        BY <1>5 DEF Dropped, Published, Publish
      <3> QED BY <1>1, <3>1, EndFacts
    <2>2. r # s /\ txn'[s] = txn[s] /\ pending'[s][l] = pending[s][l]
      BY <2>1
    <2>3. CASE Dropped(r)
      BY <2>2, <2>3 DEF Dropped
    <2>4. CASE Published(r)
      <3>1. pending[r][l] = <<>>
        BY <1>1, <2>2, PendingDisjoint
      <3>2. level'[l] = View(r, l) /\ hist'[l] = hist[l] \o pending[r][l]
        BY <2>4 DEF Published, Publish
      <3>3. hist[l] \in Seq(Movement)
        BY <1>1 DEF LedgerInv, TypeOK
      <3>4. hist'[l] = hist[l]
        BY <3>1, <3>2, <3>3, NetFacts
      <3> QED BY <2>2, <3>1, <3>2, <3>4 DEF View
    <2> QED BY <1>5, <2>3, <2>4
  <1> QED BY <1>2, <1>3, <1>4, <1>5 DEF DocStep

LEMMA PendingNetKept ==
    ASSUME DocsInv, PendingNet, [Next]_vars
    PROVE  PendingNet'
  <1>1. DocStep /\ DocsInv' /\ LedgerInv /\ LedgerInv' /\ TypeOK /\ TypeOK' /\ RefsOwn
    BY DocSteps DEF DocsInv, OversellInv, LedgerInv
  <1> SUFFICES ASSUME NEW s \in Sessions, NEW l \in Loc
               PROVE  Net(hist'[l] \o pending'[s][l]) = Net(hist'[l])
                         + (IF txn'[s].doc \in Transfers THEN 0 ELSE View(s, l)' - level'[l])
    BY DEF PendingNet
  <1>2. /\ hist[l] \in Seq(Movement) /\ pending[s][l] \in Seq(Movement) /\ level[l] \in Int
        /\ hist'[l] \in Seq(Movement) /\ pending'[s][l] \in Seq(Movement) /\ level'[l] \in Int
    BY <1>1 DEF TypeOK
  <1>3. CASE pending'[s][l] = <<>>
    <2>1. hist'[l] \o pending'[s][l] = hist'[l] /\ Net(hist'[l]) \in Int
      BY <1>2, <1>3, NetFacts
    <2>2. View(s, l)' = level'[l]
      BY <1>3 DEF View
    <2> QED BY <2>1, <2>2, <1>2
  <1>4. CASE pending'[s][l] # <<>>
    <2>1. /\ txn'[s].doc = txn[s].doc /\ level'[l] = level[l] /\ hist'[l] = hist[l]
          /\ \/ pending'[s][l] = pending[s][l]
             \/ /\ RecordMovement(s) /\ l = Place(Current(s))
                /\ pending'[s][l] = Append(pending[s][l], Entry(s, Current(s)))
      BY <1>1, <1>4, PendingSteps
    <2>2. CASE pending'[s][l] = pending[s][l]
      <3>1. View(s, l)' = View(s, l)
        BY <2>1, <2>2 DEF View
      <3> QED BY <3>1, <2>1, <2>2 DEF PendingNet
    <2>3. CASE /\ RecordMovement(s) /\ l = Place(Current(s))
               /\ pending'[s][l] = Append(pending[s][l], Entry(s, Current(s)))
      <3>1. PICK m \in Line : m = Current(s) /\ m = txn[s].todo[1] /\ txn[s].todo # <<>>
                              /\ txn[s].todo \in Seq(Line)
        BY <1>1, <2>3, LineFacts
      <3>2. PICK e \in Movement : /\ e = Entry(s, m) /\ e.balance = View(s, l) + e.qty
                                  /\ e.ref = m.ref /\ e.qty \in Int
        BY <1>1, <2>3, <3>1, TypedEntry DEF Entry
      <3>3. e.ref.doc = txn[s].doc
        <4>1. 1 \in DOMAIN txn[s].todo
          BY <3>1, TailFacts
        <4> QED BY <3>1, <3>2, <4>1, <1>1 DEF RefsOwn, OwnLines
      <3>4. PICK a \in Seq(Movement), b \in Seq(Movement) :
                a = hist[l] /\ b = pending[s][l]
        BY <1>2
      <3>5. a \o b \in Seq(Movement) /\ a \o Append(b, e) = Append(a \o b, e)
        OBVIOUS
      <3>6. PICK h \in Seq(Movement) : h = hist[l] \o pending[s][l] /\ h = a \o b
        BY <3>4, <3>5
      <3>7. pending'[s][l] = Append(b, e)
        BY <2>3, <3>1, <3>2, <3>4
      <3>8. hist'[l] \o pending'[s][l] = Append(h, e)
        BY <2>1, <3>6, <3>4, <3>5, <3>7
      <3>9. Net(Append(h, e)) = Net(h) + (IF e.ref.doc \in Transfers THEN 0 ELSE e.qty)
        BY NetAppend
      <3>10. Net(h) = Net(hist[l])
                        + (IF txn[s].doc \in Transfers THEN 0 ELSE View(s, l) - level[l])
        BY <3>6 DEF PendingNet
      <3>11. View(s, l)' = e.balance
        BY <3>7, AppendFacts DEF View
      <3>12. View(s, l) \in Int /\ Net(hist[l]) \in Int
        BY <1>1, <1>2, TypedView, NetFacts
      <3>13. Net(hist'[l] \o pending'[s][l]) =
                Net(hist[l]) + (IF txn[s].doc \in Transfers THEN 0 ELSE View(s, l) - level[l])
                  + (IF txn[s].doc \in Transfers THEN 0 ELSE e.qty)
        BY <3>3, <3>8, <3>9, <3>10
      <3>14. Net(hist'[l]) = Net(hist[l]) /\ level'[l] = level[l] /\ txn'[s].doc = txn[s].doc
        BY <2>1
      <3> QED BY <1>2, <3>2, <3>11, <3>12, <3>13, <3>14
    <2> QED BY <2>1, <2>2, <2>3
  <1> QED BY <1>3, <1>4

\* What is published.
LEMMA PublishNet ==
    ASSUME DocsInv, PendingNet, NEW s \in Sessions, Published(s), NEW l \in Loc
    PROVE  /\ Net(hist'[l]) \in Int /\ Net(hist[l]) \in Int
           /\ Net(hist'[l]) = Net(hist[l])
                 + (IF txn[s].doc \in Transfers THEN 0 ELSE level'[l] - level[l])
  <1>1. TypeOK
    BY DEF DocsInv, OversellInv, LedgerInv
  <1>2. level'[l] = View(s, l) /\ hist'[l] = hist[l] \o pending[s][l]
    BY DEF Published, Publish
  <1>3. hist[l] \in Seq(Movement) /\ pending[s][l] \in Seq(Movement)
    BY <1>1 DEF TypeOK
  <1>4. hist'[l] \in Seq(Movement)
    BY <1>2, <1>3
  <1> QED BY <1>2, <1>3, <1>4, NetFacts DEF PendingNet

-----------------------------------------------------------------------------
(* The ledger tells the story of a transfer                                *)

Entered(h, d, leg, k) ==
    \E n \in DOMAIN h : h[n].ref = [doc |-> d, leg |-> leg, row |-> k]

\* What the histories H hold of row k of transfer t, which stands as r.
RowTold(H, r, t, k) ==
    LET item == r.rows[k].item
    IN  /\ Entered(H[<<r.from, item>>], t, "out", k) =>
              r.status \in {"dispatched", "received", "cancelled"}
        /\ r.status \in {"dispatched", "received"} =>
              Entered(H[<<r.from, item>>], t, "out", k)
        /\ Entered(H[<<r.to, item>>], t, "in", k) <=> r.status = "received"
        /\ Entered(H[<<r.from, item>>], t, "back", k) => r.status = "cancelled"
        /\ r.status = "cancelled" =>
              (Entered(H[<<r.from, item>>], t, "out", k)
                  <=> Entered(H[<<r.from, item>>], t, "back", k))
Told(H, r, t) == \A k \in DOMAIN r.rows : RowTold(H, r, t, k)
AllTold == \A t \in Transfers : transfer[t] # NoDoc => Told(hist, transfer[t], t)

\* Nothing refers to a transfer before it is there.
RefsExist == \A l \in Loc : \A n \in DOMAIN hist[l] :
    hist[l][n].ref.doc \in Transfers => transfer[hist[l][n].ref.doc] # NoDoc

LEMMA ToldIsLegs ==
    ASSUME DocTypes, AllTold
    PROVE  TransferMatchesLedger
  <1> SUFFICES ASSUME NEW t \in Transfers, transfer[t] # NoDoc
               PROVE  TransferLegs(t)
    BY DEF TransferMatchesLedger
  <1>1. transfer[t].status \in TransferStatus
    BY DEF DocTypes, Transfer
  <1>2. Told(hist, transfer[t], t)
    BY DEF AllTold
  <1> QED BY <1>1, <1>2 DEF TransferLegs, Told, RowTold, Posted, Entered, TransferStatus

LEMMA EnteredJoin ==
    ASSUME NEW h \in Seq(Movement), NEW p \in Seq(Movement), NEW d, NEW leg, NEW k
    PROVE  Entered(h \o p, d, leg, k) <=> Entered(h, d, leg, k) \/ Entered(p, d, leg, k)
  <1>1. /\ Len(h) \in Nat /\ Len(p) \in Nat /\ Len(h \o p) = Len(h) + Len(p)
        /\ DOMAIN h = 1 .. Len(h) /\ DOMAIN p = 1 .. Len(p)
        /\ DOMAIN (h \o p) = 1 .. Len(h) + Len(p)
        /\ \A n \in 1 .. Len(h) : (h \o p)[n] = h[n]
        /\ \A n \in Len(h) + 1 .. Len(h) + Len(p) : (h \o p)[n] = p[n - Len(h)]
    OBVIOUS
  <1> DEFINE ref == [doc |-> d, leg |-> leg, row |-> k]
  <1>2. ASSUME NEW n \in DOMAIN h, h[n].ref = ref PROVE Entered(h \o p, d, leg, k)
    <2>1. n \in DOMAIN (h \o p) /\ (h \o p)[n] = h[n]
      BY <1>1
    <2> QED BY <2>1, <1>2 DEF Entered
  <1>3. ASSUME NEW n \in DOMAIN p, p[n].ref = ref PROVE Entered(h \o p, d, leg, k)
    <2>1. n + Len(h) \in DOMAIN (h \o p) /\ (h \o p)[n + Len(h)] = p[n]
      BY <1>1
    <2> QED BY <2>1, <1>3 DEF Entered
  <1>4. ASSUME NEW n \in DOMAIN (h \o p), (h \o p)[n].ref = ref
        PROVE  Entered(h, d, leg, k) \/ Entered(p, d, leg, k)
    <2>1. CASE n \in 1 .. Len(h)
      BY <1>1, <1>4, <2>1 DEF Entered
    <2>2. CASE n \in Len(h) + 1 .. Len(h) + Len(p)
      <3>1. n - Len(h) \in DOMAIN p /\ (h \o p)[n] = p[n - Len(h)]
        BY <1>1, <2>2
      <3> QED BY <1>4, <3>1 DEF Entered
    <2> QED BY <1>1, <2>1, <2>2
  <1> QED BY <1>2, <1>3, <1>4 DEF Entered

\* A commit adds to the ledger what the request wrote, under its own document.
LEMMA PublishEnters ==
    ASSUME DocsInv, NEW s \in Sessions, Published(s), NEW l \in Loc, NEW t, NEW leg, NEW k
    PROVE  /\ Entered(hist'[l], t, leg, k)
                 <=> Entered(hist[l], t, leg, k) \/ Entered(pending[s][l], t, leg, k)
           /\ Entered(pending[s][l], t, leg, k) => t = txn[s].doc
  <1>1. TypeOK /\ RefsOwn
    BY DEF DocsInv, OversellInv, LedgerInv
  <1>2. hist[l] \in Seq(Movement) /\ pending[s][l] \in Seq(Movement)
    BY <1>1 DEF TypeOK
  <1>3. hist'[l] = hist[l] \o pending[s][l]
    BY DEF Published, Publish
  <1>4. OwnLines(txn[s].doc, pending[s][l])
    BY <1>1 DEF RefsOwn
  <1>5. ASSUME Entered(pending[s][l], t, leg, k) PROVE t = txn[s].doc
    <2>1. PICK n \in DOMAIN pending[s][l] :
             pending[s][l][n].ref = [doc |-> t, leg |-> leg, row |-> k]
      BY <1>5 DEF Entered
    <2>2. pending[s][l][n].ref.doc = t
      BY <2>1
    <2> QED BY <2>2, <1>4 DEF OwnLines
  <1> QED BY <1>2, <1>3, <1>5, EnteredJoin

\* A transfer request that commits has written each row at its site, or nothing.
RowWritten(s, op, t, k) == \A w \in Warehouses : \A leg :
    Entered(pending[s][<<w, transfer[t].rows[k].item>>], t, leg, k)
       <=> Moves(op, t) /\ leg = Leg(op) /\ w = Site(op, t)

LEMMA WholeEntered ==
    ASSUME DocsInv, HalfDone, NEW s \in Sessions, Published(s), NEW op \in TransferOps,
           NEW t, op = txn[s].op, t = txn[s].doc,
           NEW k \in DOMAIN transfer[t].rows
    PROVE  RowWritten(s, op, t, k)
  <1> SUFFICES ASSUME NEW w \in Warehouses, NEW leg
               PROVE  Entered(pending[s][<<w, transfer[t].rows[k].item>>], t, leg, k)
                         <=> Moves(op, t) /\ leg = Leg(op) /\ w = Site(op, t)
    BY DEF RowWritten
  <1> DEFINE l == <<w, transfer[t].rows[k].item>>
             ref == [doc |-> t, leg |-> leg, row |-> k]
  <1>1. DocTypes /\ Fits(op, t)
    BY WholeTransfer DEF DocsInv
  <1>2. PICK p \in Seq(Line) :
           /\ p = Plan(op, t)
           /\ \A c \in Loc : \A m \in DOMAIN pending[s][c] :
                 \E j \in DOMAIN p : Place(p[j]) = c /\ pending[s][c][m].ref = p[j].ref
           /\ \A j \in DOMAIN p : \E m \in DOMAIN pending[s][Place(p[j])] :
                 pending[s][Place(p[j])][m].ref = p[j].ref
    <2>1. Wrote(s, op, t)
      BY WholeTransfer
    <2> QED BY <2>1 DEF Wrote
  <1>3. l \in Loc
    <2>1. transfer[t].rows \in Rows
      BY <1>1, PlanFacts DEF Transfer
    <2>2. transfer[t].rows[k].item \in Items
      BY <2>1, TypedRows
    <2> QED BY <2>2 DEF Loc
  <1>4. CASE ~ Moves(op, t)
    <2>1. p = <<>>
      BY <1>1, <1>2, <1>4, PlanFacts
    <2>2. DOMAIN p = {}
      BY <2>1
    <2> QED BY <1>2, <1>3, <1>4, <2>2 DEF Entered
  <1>5. CASE Moves(op, t)
    <2>1. Mirrors(p, op, t)
      BY <1>1, <1>2, <1>5, PlanFacts
    <2>2. /\ DOMAIN p = DOMAIN transfer[t].rows
          /\ \A j \in DOMAIN p : /\ Place(p[j]) = <<Site(op, t), transfer[t].rows[j].item>>
                                 /\ p[j].ref = [doc |-> t, leg |-> Leg(op), row |-> j]
      BY <2>1 DEF Mirrors
    <2>3. ASSUME NEW m \in DOMAIN pending[s][l], pending[s][l][m].ref = ref
          PROVE  leg = Leg(op) /\ w = Site(op, t)
      <3>1. PICK j \in DOMAIN p : Place(p[j]) = l /\ pending[s][l][m].ref = p[j].ref
        BY <1>2, <1>3
      <3>2. ref = [doc |-> t, leg |-> Leg(op), row |-> j]
        BY <2>2, <2>3, <3>1
      <3>3. ref.leg = Leg(op) /\ ref.leg = leg
        BY <3>2
      <3>4. l = <<Site(op, t), transfer[t].rows[j].item>>
        BY <2>2, <3>1
      <3> QED BY <3>3, <3>4
    <2>4. ASSUME leg = Leg(op), w = Site(op, t)
          PROVE  \E m \in DOMAIN pending[s][l] : pending[s][l][m].ref = ref
      <3>1. k \in DOMAIN p /\ Place(p[k]) = l /\ p[k].ref = ref
        BY <2>2, <2>4
      <3>2. \E m \in DOMAIN pending[s][Place(p[k])] :
               pending[s][Place(p[k])][m].ref = p[k].ref
        BY <1>2, <3>1
      <3> QED BY <3>1, <3>2
    <2> QED BY <1>5, <2>3, <2>4 DEF Entered
  <1> QED BY <1>4, <1>5

LEMMA RefsExistKept ==
    ASSUME DocsInv, RefsExist, DocStep
    PROVE  RefsExist'
  <1>1. RequestsFit /\ DocTypes /\ TypeOK
    BY DEF DocsInv, OversellInv, LedgerInv
  <1>2. ASSUME NEW t \in Transfers, transfer[t] # NoDoc PROVE transfer'[t] # NoDoc
    <2>1. CASE Calm \/ \E s \in Sessions : Begun(s) \/ Lined(s) \/ Dropped(s)
      BY <1>2, <2>1 DEF Calm, Begun, Lined, Dropped
    <2>2. CASE Created
      <3>1. PICK u \in Transfers, d \in Transfer :
               transfer[u] = NoDoc /\ transfer' = [transfer EXCEPT ![u] = d]
        BY <2>2 DEF Created
      <3> QED BY <1>1, <1>2, <3>1 DEF DocTypes
    <2>3. ASSUME NEW s \in Sessions, Published(s) PROVE transfer'[t] # NoDoc
      <3>1. \/ transfer' = transfer
            \/ transfer' = [transfer EXCEPT ![txn[s].doc] =
                               [transfer[txn[s].doc] EXCEPT !.status = NewStatus[txn[s].op]]]
        BY <2>3 DEF Published
      <3>2. transfer'[t] = transfer[t]
            \/ transfer'[t] = [transfer[t] EXCEPT !.status = NewStatus[txn[s].op]]
        BY <1>1, <3>1 DEF DocTypes
      <3>3. transfer[t] \in Transfer
        BY <1>1, <1>2 DEF DocTypes
      <3>4. CASE txn[s].op \in TransferOps
        <4>1. NewStatus[txn[s].op] \in TransferStatus
          BY <3>4 DEF NewStatus, TransferOps, TransferStatus
        <4>2. [transfer[t] EXCEPT !.status = NewStatus[txn[s].op]] \in Transfer
          BY <3>3, <4>1 DEF Transfer
        <4> QED BY <1>2, <3>2, <4>2, DocSets
      <3>5. CASE txn[s].op \notin TransferOps
        BY <1>2, <2>3, <3>5 DEF Published
      <3> QED BY <3>4, <3>5
    <2> QED BY <2>1, <2>2, <2>3 DEF DocStep
  <1>3. CASE hist' = hist
    BY <1>2, <1>3 DEF RefsExist
  <1>4. ASSUME NEW s \in Sessions, Published(s) PROVE RefsExist'
    <2> SUFFICES ASSUME NEW l \in Loc, NEW n \in DOMAIN hist'[l],
                        hist'[l][n].ref.doc \in Transfers
                 PROVE  transfer'[hist'[l][n].ref.doc] # NoDoc
      BY DEF RefsExist
    <2>1. hist[l] \in Seq(Movement) /\ pending[s][l] \in Seq(Movement)
      BY <1>1 DEF TypeOK
    <2>2. hist'[l] = hist[l] \o pending[s][l]
      BY <1>4 DEF Published, Publish
    <2>3. hist'[l] \in Seq(Movement)
      BY <2>1, <2>2
    <2>4. hist'[l][n].ref \in Refs
      <3>1. PICK h \in Seq(Movement) : h = hist'[l]
        BY <2>3
      <3>2. h[n] \in Movement
        BY <3>1
      <3> QED BY <3>1, <3>2 DEF Movement
    <2>5. PICK t, leg, k : t = hist'[l][n].ref.doc /\ Entered(hist'[l], t, leg, k)
      BY <2>4 DEF Refs, Entered
    <2>6. Entered(hist[l], t, leg, k) \/ t = txn[s].doc
      BY <1>4, <2>5, PublishEnters
    <2>7. CASE Entered(hist[l], t, leg, k)
      BY <1>2, <2>5, <2>7 DEF RefsExist, Entered
    <2>8. CASE t = txn[s].doc
      <3>1. transfer[t] # NoDoc
        BY <1>1, <2>5, <2>8, DocSets DEF RequestsFit, Fits, StatusOf, TypeOK, Txn, Ops
      <3> QED BY <1>2, <2>5, <3>1
    <2> QED BY <2>6, <2>7, <2>8
  <1>5. hist' = hist \/ \E s \in Sessions : Published(s)
    <2>1. ASSUME NEW s \in Sessions, Lined(s) PROVE hist' = hist
      BY <2>1 DEF Lined, RecordMovement, SkipImportRow
    <2> QED BY <2>1 DEF DocStep, Calm, Created, Begun, Dropped
  <1> QED BY <1>3, <1>4, <1>5

\* A transfer as it is written down: its places and rows.
LEMMA RowPlaces ==
    ASSUME NEW r \in Transfer, NEW k \in DOMAIN r.rows
    PROVE  /\ r.from \in Warehouses /\ r.to \in Warehouses
           /\ <<r.from, r.rows[k].item>> \in Loc /\ <<r.to, r.rows[k].item>> \in Loc
  <1>1. r.from \in Warehouses /\ r.to \in Warehouses /\ r.rows \in Rows
    BY DEF Transfer
  <1>2. r.rows[k].item \in Items
    BY <1>1, TypedRows
  <1> QED BY <1>1, <1>2 DEF Loc

\* The transfer that a request commits is told by the ledger up to its new status.
LEMMA OwnTold ==
    ASSUME DocsInv, HalfDone, NEW s \in Sessions, Published(s), NEW op \in TransferOps,
           NEW t, op = txn[s].op, t = txn[s].doc, Told(hist, transfer[t], t)
    PROVE  Told(hist', transfer'[t], t)
  <1>1. DocTypes /\ Fits(op, t) /\ t \in Transfers
    BY WholeTransfer DEF DocsInv
  <1>2. transfer' = [transfer EXCEPT ![t] = [transfer[t] EXCEPT !.status = NewStatus[op]]]
    BY WholeTransfer DEF Settled
  <1>3. PICK r \in Transfer : r = transfer[t] /\ r # NoDoc
    BY <1>1, PlanFacts
  <1>4. PICK q : /\ q = transfer'[t] /\ q = [r EXCEPT !.status = NewStatus[op]]
                 /\ q.from = r.from /\ q.to = r.to /\ q.rows = r.rows
                 /\ q.status = NewStatus[op]
    BY <1>1, <1>2, <1>3 DEF DocTypes, Transfer
  <1> SUFFICES ASSUME NEW k \in DOMAIN r.rows PROVE RowTold(hist', q, t, k)
    BY <1>4 DEF Told
  <1>5. RowTold(hist, r, t, k)
    BY <1>3 DEF Told
  <1> DEFINE src == <<r.from, r.rows[k].item>>
             dst == <<r.to, r.rows[k].item>>
  <1>6. src \in Loc /\ dst \in Loc /\ r.from \in Warehouses /\ r.to \in Warehouses
    BY RowPlaces
  <1>7. ASSUME NEW leg, NEW w \in Warehouses
         PROVE  Entered(pending[s][<<w, r.rows[k].item>>], t, leg, k)
                   <=> Moves(op, t) /\ leg = Leg(op) /\ w = Site(op, t)
    <2>1. k \in DOMAIN transfer[t].rows
      BY <1>3
    <2>2. RowWritten(s, op, t, k)
      BY <2>1, WholeEntered
    <2> QED BY <2>2, <1>3 DEF RowWritten
  <1>8. ASSUME NEW leg, NEW l \in Loc
         PROVE  Entered(hist'[l], t, leg, k)
                   <=> Entered(hist[l], t, leg, k) \/ Entered(pending[s][l], t, leg, k)
    BY PublishEnters
  <1>9. \A leg \in {"out", "back"} :
           Entered(hist'[src], t, leg, k) <=>
              Entered(hist[src], t, leg, k)
                 \/ (Moves(op, t) /\ leg = Leg(op) /\ r.from = Site(op, t))
    BY <1>6, <1>7, <1>8
  <1>10. Entered(hist'[dst], t, "in", k) <=>
           Entered(hist[dst], t, "in", k)
              \/ (Moves(op, t) /\ "in" = Leg(op) /\ r.to = Site(op, t))
    BY <1>6, <1>7, <1>8
  <1>11. r.status \in TransferStatus /\ StatusOf(r) = r.status
    BY <1>3 DEF Transfer, StatusOf
  <1>12. CASE op = "dispatch"
    <2>1. /\ Moves(op, t) /\ Leg(op) = "out" /\ Site(op, t) = r.from
          /\ r.status = "draft" /\ q.status = "dispatched"
      BY <1>1, <1>3, <1>4, <1>11, <1>12 DEF Moves, Leg, Site, Fits, NewStatus
    <2> QED BY <2>1, <1>4, <1>5, <1>9, <1>10 DEF RowTold
  <1>13. CASE op = "receive"
    <2>1. /\ Moves(op, t) /\ Leg(op) = "in" /\ Site(op, t) = r.to
          /\ r.status = "dispatched" /\ q.status = "received"
      BY <1>1, <1>3, <1>4, <1>11, <1>13 DEF Moves, Leg, Site, Fits, NewStatus
    <2> QED BY <2>1, <1>4, <1>5, <1>9, <1>10 DEF RowTold
  <1>14. CASE op = "cancel"
    <2>1. /\ Moves(op, t) <=> r.status = "dispatched"
          /\ Leg(op) = "back" /\ Site(op, t) = r.from
          /\ r.status \in {"draft", "dispatched"} /\ q.status = "cancelled"
      BY <1>1, <1>3, <1>4, <1>11, <1>14 DEF Moves, Leg, Site, Fits, NewStatus
    <2> QED BY <2>1, <1>4, <1>5, <1>9, <1>10 DEF RowTold
  <1> QED BY <1>12, <1>13, <1>14 DEF TransferOps

LEMMA SameTold ==
    ASSUME NEW r \in Transfer, NEW t, Told(hist, r, t),
           \A leg, k : \A l \in Loc :
              Entered(hist'[l], t, leg, k) <=> Entered(hist[l], t, leg, k)
    PROVE  Told(hist', r, t)
  <1> SUFFICES ASSUME NEW k \in DOMAIN r.rows PROVE RowTold(hist', r, t, k)
    BY DEF Told
  <1>1. RowTold(hist, r, t, k)
    BY DEF Told
  <1>2. <<r.from, r.rows[k].item>> \in Loc /\ <<r.to, r.rows[k].item>> \in Loc
    BY RowPlaces
  <1> QED BY <1>1, <1>2 DEF RowTold

\* Only a transfer request holds a transfer.
LEMMA TransferHeld ==
    ASSUME DocsInv, NEW s \in Sessions
    PROVE  txn[s].doc \in Transfers <=> txn[s].op \in TransferOps
  <1>1. RequestsFit /\ TypeOK
    BY DEF DocsInv, OversellInv, LedgerInv
  <1>2. txn[s].op \in Ops
    BY <1>1 DEF TypeOK, Txn
  <1> QED BY <1>1, <1>2, DocSets DEF RequestsFit, Fits, Ops, TransferOps

LEMMA AllToldKept ==
    ASSUME DocsInv, HalfDone, AllTold, RefsExist, DocStep
    PROVE  AllTold'
  <1>1. DocTypes
    BY DEF DocsInv
  <1> SUFFICES ASSUME NEW t \in Transfers, transfer'[t] # NoDoc
               PROVE  Told(hist', transfer'[t], t)
    BY DEF AllTold
  <1>2. transfer[t] # NoDoc => transfer[t] \in Transfer /\ Told(hist, transfer[t], t)
    BY <1>1 DEF DocTypes, AllTold
  <1>3. CASE hist' = hist /\ transfer' = transfer
    BY <1>2, <1>3
  <1>4. CASE Created
    <2>1. PICK u \in Transfers, d \in Transfer :
             /\ transfer[u] = NoDoc /\ d.status = "draft"
             /\ transfer' = [transfer EXCEPT ![u] = d] /\ hist' = hist
      BY <1>4 DEF Created
    <2>2. CASE t = u
      <3>1. transfer'[t] = d
        BY <1>1, <2>1, <2>2 DEF DocTypes
      <3>2. ASSUME NEW l \in Loc, NEW leg, NEW k PROVE ~ Entered(hist[l], t, leg, k)
        BY <2>1, <2>2 DEF RefsExist, Entered
      <3>3. ASSUME NEW k \in DOMAIN d.rows PROVE RowTold(hist', d, t, k)
        <4>1. <<d.from, d.rows[k].item>> \in Loc /\ <<d.to, d.rows[k].item>> \in Loc
          BY <3>3, RowPlaces
        <4> QED BY <4>1, <2>1, <3>2 DEF RowTold
      <3> QED BY <3>1, <3>3 DEF Told
    <2>3. CASE t # u
      <3>1. transfer'[t] = transfer[t]
        BY <1>1, <2>1, <2>3 DEF DocTypes
      <3> QED BY <3>1, <2>1, <1>2
    <2> QED BY <2>2, <2>3
  <1>5. ASSUME NEW s \in Sessions, Published(s) PROVE Told(hist', transfer'[t], t)
    <2>1. CASE t = txn[s].doc
      <3>1. PICK op \in TransferOps : op = txn[s].op
        BY <2>1, TransferHeld
      <3>2. Fits(op, t)
        BY <1>5, <2>1, <3>1, WholeTransfer
      <3>3. transfer[t] # NoDoc
        BY <3>1, <3>2 DEF Fits, TransferOps, StatusOf
      <3> QED BY <1>2, <1>5, <2>1, <3>1, <3>3, OwnTold
    <2>2. CASE t # txn[s].doc
      <3>1. transfer'[t] = transfer[t]
        BY <1>1, <1>5, <2>2 DEF DocTypes, Published
      <3>2. \A leg, k : \A l \in Loc :
               Entered(hist'[l], t, leg, k) <=> Entered(hist[l], t, leg, k)
        BY <1>5, <2>2, PublishEnters
      <3> QED BY <1>2, <3>1, <3>2, SameTold
    <2> QED BY <2>1, <2>2
  <1>6. \/ hist' = hist /\ transfer' = transfer
        \/ Created \/ \E s \in Sessions : Published(s)
    <2>1. ASSUME NEW s \in Sessions, Lined(s) PROVE hist' = hist /\ transfer' = transfer
      BY <2>1 DEF Lined, RecordMovement, SkipImportRow
    <2> QED BY <2>1 DEF DocStep, Calm, Begun, Dropped
  <1> QED BY <1>3, <1>4, <1>5, <1>6

-----------------------------------------------------------------------------
(* Goods are neither lost nor made                                         *)

\* Stock over the warehouses, what the dispatched transfers carry, and what other
\* documents brought.
CarriedBy(d, i) == SumOf(Amounts(d.rows, i), DOMAIN d.rows)
OnWay == {t \in Transfers : StatusOf(transfer[t]) = "dispatched"}
Levels(L, i) == [w \in Warehouses |-> L[<<w, i>>]]
Loads(T, i) == [t \in Transfers |-> CarriedBy(T[t], i)]
Nets(H, i) == [w \in Warehouses |-> Net(H[<<w, i>>])]

Balanced == \A i \in Items :
    SumOf(Levels(level, i), Warehouses) + SumOf(Loads(transfer, i), OnWay)
       = SumOf(Nets(hist, i), Warehouses)

\* What the proof that transfers add up needs besides DocsInv.
TransfersInv == /\ HalfDone /\ AllTold /\ RefsExist
                /\ PendingNet /\ IsFiniteSet(OnWay) /\ Balanced

LEMMA CarriedByInt ==
    ASSUME NEW d \in Transfer, NEW i
    PROVE  CarriedBy(d, i) \in Int
  <1>1. d.rows \in Rows
    BY DEF Transfer
  <1>2. PICK n \in Nat : DOMAIN d.rows = 1 .. n
    BY <1>1, TypedRows
  <1>3. IsFiniteSet(DOMAIN d.rows)
    BY <1>2, FS_Interval
  <1>4. \A k \in DOMAIN d.rows : Amounts(d.rows, i)[k] \in Int
    BY <1>1, TypedRows DEF Amounts
  <1> QED BY <1>3, <1>4, SumType DEF CarriedBy

LEMMA SumTypes ==
    ASSUME NEW L, NEW H, \A l \in Loc : L[l] \in Int /\ H[l] \in Seq(Movement),
           NEW i \in Items
    PROVE  /\ IsFiniteSet(Warehouses)
           /\ \A w \in Warehouses : <<w, i>> \in Loc
           /\ \A w \in Warehouses : /\ Levels(L, i)[w] \in Int
                                    /\ Levels(L, i)[w] = L[<<w, i>>]
                                    /\ Nets(H, i)[w] \in Int
                                    /\ Nets(H, i)[w] = Net(H[<<w, i>>])
           /\ SumOf(Levels(L, i), Warehouses) \in Int
           /\ SumOf(Nets(H, i), Warehouses) \in Int
  <1>1. IsFiniteSet(Warehouses) /\ \A w \in Warehouses : <<w, i>> \in Loc
    BY StockConstants DEF Loc
  <1>2. \A l \in Loc : Net(H[l]) \in Int
    BY NetFacts
  <1>3. \A w \in Warehouses : /\ Levels(L, i)[w] \in Int
                              /\ Levels(L, i)[w] = L[<<w, i>>]
                              /\ Nets(H, i)[w] \in Int
                              /\ Nets(H, i)[w] = Net(H[<<w, i>>])
    BY <1>1, <1>2 DEF Levels, Nets
  <1>4. SumOf(Levels(L, i), Warehouses) \in Int
    BY <1>1, <1>3, SumType
  <1>5. SumOf(Nets(H, i), Warehouses) \in Int
    BY <1>1, <1>3, SumType
  <1> QED BY <1>1, <1>3, <1>4, <1>5

\* Other documents change stock by what they write.
LEMMA OthersBalanced ==
    ASSUME DocsInv, DocsInv', PendingNet,
           NEW s \in Sessions, Published(s), txn[s].doc \notin Transfers, NEW i \in Items
    PROVE  SumOf(Levels(level', i), Warehouses) - SumOf(Levels(level, i), Warehouses)
              = SumOf(Nets(hist', i), Warehouses) - SumOf(Nets(hist, i), Warehouses)
  <1> DEFINE gain == [w \in Warehouses |-> level'[<<w, i>>] - level[<<w, i>>]]
             f == Levels(level, i)
             g == Levels(level', i)
             m == Nets(hist, i)
             n == Nets(hist', i)
  <1>1. /\ \A l \in Loc : level[l] \in Int /\ hist[l] \in Seq(Movement)
        /\ \A l \in Loc : level'[l] \in Int /\ hist'[l] \in Seq(Movement)
    BY DEF DocsInv, OversellInv, LedgerInv, TypeOK
  <1>2. /\ IsFiniteSet(Warehouses)
        /\ \A w \in Warehouses : <<w, i>> \in Loc
        /\ \A w \in Warehouses : f[w] \in Int /\ f[w] = level[<<w, i>>]
                                 /\ m[w] \in Int /\ m[w] = Net(hist[<<w, i>>])
        /\ SumOf(f, Warehouses) \in Int /\ SumOf(m, Warehouses) \in Int
    <2>1. PICK L, H : /\ L = level /\ H = hist
                      /\ \A l \in Loc : L[l] \in Int /\ H[l] \in Seq(Movement)
      BY <1>1
    <2> QED BY <2>1, SumTypes, SMTT(30)
  <1>3. /\ \A w \in Warehouses : g[w] \in Int /\ g[w] = level'[<<w, i>>]
                                 /\ n[w] \in Int /\ n[w] = Net(hist'[<<w, i>>])
        /\ SumOf(g, Warehouses) \in Int /\ SumOf(n, Warehouses) \in Int
    BY <1>1, SumTypes
  <1>4. \A w \in Warehouses : Net(hist'[<<w, i>>]) =
                                 Net(hist[<<w, i>>]) + (level'[<<w, i>>] - level[<<w, i>>])
    BY <1>2, PublishNet
  <1>5. \A w \in Warehouses : /\ gain[w] \in Int
                              /\ g[w] = f[w] + gain[w] /\ n[w] = m[w] + gain[w]
    BY <1>2, <1>3, <1>4
  <1> HIDE DEF gain, f, g, m, n
  <1>6. SumOf(g, Warehouses) = SumOf(f, Warehouses) + SumOf(gain, Warehouses)
    <2>1. \A w \in Warehouses : f[w] \in Int /\ gain[w] \in Int /\ g[w] = f[w] + gain[w]
      BY <1>2, <1>5
    <2> QED BY <1>2, <2>1, SumPlus
  <1>7. SumOf(n, Warehouses) = SumOf(m, Warehouses) + SumOf(gain, Warehouses)
    <2>1. \A w \in Warehouses : m[w] \in Int /\ gain[w] \in Int /\ n[w] = m[w] + gain[w]
      BY <1>2, <1>5
    <2> QED BY <1>2, <2>1, SumPlus
  <1>8. SumOf(gain, Warehouses) \in Int
    BY <1>2, <1>5, SumType
  <1>9. SumOf(g, Warehouses) - SumOf(f, Warehouses) = SumOf(n, Warehouses) - SumOf(m, Warehouses)
    BY <1>2, <1>6, <1>7, <1>8
  <1> QED BY <1>9 DEF f, g, m, n

\* A transfer changes stock at one warehouse, by all it carries.
LEMMA OneWarehouse ==
    ASSUME DocsInv, DocsInv',
           NEW op, NEW t, Shifted(op, t), Site(op, t) \in Warehouses, NEW i \in Items,
           NEW c \in Int, c = IF Moves(op, t) THEN Sign(op) * Carried(t, i) ELSE 0
    PROVE  SumOf(Levels(level', i), Warehouses) = SumOf(Levels(level, i), Warehouses) + c
  <1> DEFINE f == Levels(level, i)
             g == Levels(level', i)
  <1>1. /\ \A l \in Loc : level[l] \in Int /\ hist[l] \in Seq(Movement)
        /\ \A l \in Loc : level'[l] \in Int /\ hist'[l] \in Seq(Movement)
    BY DEF DocsInv, OversellInv, LedgerInv, TypeOK
  <1>2. /\ IsFiniteSet(Warehouses)
        /\ \A w \in Warehouses : <<w, i>> \in Loc
        /\ \A w \in Warehouses : f[w] \in Int /\ f[w] = level[<<w, i>>]
        /\ SumOf(f, Warehouses) \in Int
    BY <1>1, SumTypes
  <1>3. /\ \A w \in Warehouses : g[w] \in Int /\ g[w] = level'[<<w, i>>]
        /\ SumOf(g, Warehouses) \in Int
    BY <1>1, SumTypes
  <1>4. \A w \in Warehouses : g[w] = IF w = Site(op, t) THEN f[w] + c ELSE f[w]
    <2>1. SUFFICES ASSUME NEW w \in Warehouses
                   PROVE  g[w] = IF w = Site(op, t) THEN f[w] + c ELSE f[w]
      OBVIOUS
    <2>2. PICK l \in Loc : l = <<w, i>> /\ l[1] = w /\ l[2] = i
      BY <1>2
    <2>3. level'[l] = IF Moves(op, t) /\ w = Site(op, t)
                      THEN level[l] + Sign(op) * Carried(t, i) ELSE level[l]
      BY <2>2 DEF Shifted
    <2>4. g[w] = level'[l] /\ f[w] = level[l] /\ f[w] \in Int
      BY <1>2, <1>3, <2>2
    <2> QED BY <2>3, <2>4
  <1> HIDE DEF f, g
  <1>5. PICK a \in Warehouses : a = Site(op, t)
    OBVIOUS
  <1>6. \A w \in Warehouses \ {a} : g[w] = f[w]
    BY <1>4, <1>5
  <1>7. SumOf(g, Warehouses) = SumOf(f, Warehouses) + (g[a] - f[a])
    <2>1. \A w \in Warehouses : f[w] \in Int /\ g[w] \in Int
      BY <1>2, <1>3
    <2> QED BY <1>2, <1>6, <2>1, SumChange
  <1>8. g[a] = f[a] + c /\ f[a] \in Int
    BY <1>2, <1>4, <1>5
  <1>9. SumOf(g, Warehouses) = SumOf(f, Warehouses) + c
    BY <1>2, <1>7, <1>8
  <1> QED BY <1>9 DEF f, g

LEMMA PartLoads ==
    ASSUME NEW S, IsFiniteSet(S), S \subseteq Transfers, NEW T,
           \A u \in S : T[u] \in Transfer, NEW i, NEW t
    PROVE  /\ SumOf(Loads(T, i), S \ {t}) \in Int
           /\ SumOf(Loads(T, i), S) =
                 (IF t \in S THEN CarriedBy(T[t], i) ELSE 0) + SumOf(Loads(T, i), S \ {t})
  <1> DEFINE f == Loads(T, i)
  <1>1. \A u \in S : f[u] = CarriedBy(T[u], i) /\ f[u] \in Int
    BY CarriedByInt DEF Loads
  <1> HIDE DEF f
  <1>2. IsFiniteSet(S \ {t})
    BY FS_Subset
  <1>3. SumOf(f, S \ {t}) \in Int
    BY <1>1, <1>2, SumType
  <1>4. ASSUME t \in S
        PROVE  SumOf(f, S) = (IF t \in S THEN CarriedBy(T[t], i) ELSE 0) + SumOf(f, S \ {t})
    <2>1. SumOf(f, S) = f[t] + SumOf(f, S \ {t})
      BY <1>1, <1>4, SumRemove
    <2> QED BY <2>1, <1>1, <1>4
  <1>5. ASSUME t \notin S
        PROVE  SumOf(f, S) = (IF t \in S THEN CarriedBy(T[t], i) ELSE 0) + SumOf(f, S \ {t})
    <2>1. S \ {t} = S
      BY <1>5
    <2>2. SumOf(f, S) = SumOf(f, S \ {t})
      BY <2>1
    <2> QED BY <2>2, <1>3, <1>5
  <1>6. SumOf(f, S) = (IF t \in S THEN CarriedBy(T[t], i) ELSE 0) + SumOf(f, S \ {t})
    BY <1>4, <1>5
  <1> QED BY <1>3, <1>6 DEF f

LEMMA SameLoads ==
    ASSUME NEW S, IsFiniteSet(S), S \subseteq Transfers, NEW T, NEW U,
           \A u \in S : T[u] = U[u], NEW i
    PROVE  SumOf(Loads(T, i), S) = SumOf(Loads(U, i), S)
  <1> DEFINE f == Loads(T, i)
             g == Loads(U, i)
  <1>1. \A u \in S : f[u] = g[u]
    BY DEF Loads
  <1> HIDE DEF f, g
  <1>2. SumOf(f, S) = SumOf(g, S)
    BY <1>1, SumSame
  <1> QED BY <1>2 DEF f, g

\* A transfer that is committed comes upon the way with all it carries, or leaves it.
LEMMA WayChanges ==
    ASSUME DocsInv, DocsInv', HalfDone, IsFiniteSet(OnWay), NEW s \in Sessions, Published(s),
           NEW op \in TransferOps, NEW t, op = txn[s].op, t = txn[s].doc, NEW i \in Items
    PROVE  /\ IsFiniteSet(OnWay)' /\ Site(op, t) \in Warehouses /\ Carried(t, i) \in Int
           /\ SumOf(Loads(transfer, i), OnWay) \in Int
           /\ SumOf(Loads(transfer, i), OnWay)' =
                 SumOf(Loads(transfer, i), OnWay)
                    - (IF Moves(op, t) THEN Sign(op) * Carried(t, i) ELSE 0)
  <1>1. DocTypes /\ DocTypes' /\ Fits(op, t) /\ t \in Transfers
    BY WholeTransfer DEF DocsInv
  <1>2. transfer' = [transfer EXCEPT ![t] = [transfer[t] EXCEPT !.status = NewStatus[op]]]
    BY WholeTransfer DEF Settled
  <1>3. PICK r \in Transfer : r = transfer[t] /\ r # NoDoc
    BY <1>1, PlanFacts
  <1>4. NewStatus[op] \in {"dispatched", "received", "cancelled"}
        /\ (NewStatus[op] = "dispatched" <=> op = "dispatch")
    BY DEF NewStatus, TransferOps
  <1>5. PICK q \in Transfer : /\ q = transfer'[t] /\ q.rows = r.rows /\ q # NoDoc
                              /\ q.status = NewStatus[op]
    <2>1. [r EXCEPT !.status = NewStatus[op]] \in Transfer
      BY <1>4 DEF Transfer, TransferStatus
    <2>2. transfer'[t] = [r EXCEPT !.status = NewStatus[op]]
      BY <1>1, <1>2, <1>3 DEF DocTypes
    <2> QED BY <1>3, <2>1, <2>2, DocSets DEF Transfer
  <1>6. \A u \in Transfers : u # t => transfer'[u] = transfer[u]
    BY <1>1, <1>2 DEF DocTypes
  <1> DEFINE Rest == OnWay \ {t}
             C == CarriedBy(r, i)
  <1>7. C \in Int /\ C = Carried(t, i) /\ C = CarriedBy(q, i)
    BY <1>3, <1>5, CarriedByInt DEF CarriedBy, Carried
  <1>8. OnWay' \ {t} = Rest /\ OnWay' \subseteq Rest \cup {t}
    BY <1>6 DEF OnWay
  <1>9. IsFiniteSet(Rest) /\ IsFiniteSet(OnWay')
    <2>1. IsFiniteSet(Rest)
      BY FS_Subset
    <2>2. IsFiniteSet(Rest \cup {t})
      BY <2>1, FS_AddElement
    <2> QED BY <1>8, <2>1, <2>2, FS_Subset
  <1>10. /\ \A u \in OnWay : transfer[u] \in Transfer /\ u \in Transfers
         /\ \A u \in OnWay' : transfer'[u] \in Transfer /\ u \in Transfers
    BY <1>1 DEF OnWay, DocTypes, StatusOf
  <1>11. t \in OnWay <=> r.status = "dispatched"
    BY <1>1, <1>3 DEF OnWay, StatusOf
  <1>12. t \in OnWay' <=> op = "dispatch"
    BY <1>1, <1>4, <1>5 DEF OnWay, StatusOf
  <1>13. /\ SumOf(Loads(transfer, i), Rest) \in Int
         /\ SumOf(Loads(transfer, i), OnWay) =
               (IF t \in OnWay THEN CarriedBy(transfer[t], i) ELSE 0)
                  + SumOf(Loads(transfer, i), Rest)
    BY <1>10, PartLoads
  <1>14. PICK W \in SUBSET Transfers : W = OnWay'
    BY <1>10
  <1>15. PICK T : T = transfer'
    OBVIOUS
  <1>16. SumOf(Loads(T, i), W) =
            (IF t \in W THEN CarriedBy(T[t], i) ELSE 0) + SumOf(Loads(T, i), W \ {t})
    BY <1>9, <1>10, <1>14, <1>15, PartLoads
  <1>17. SumOf(Loads(T, i), Rest) = SumOf(Loads(transfer, i), Rest)
    BY <1>6, <1>9, <1>10, <1>15, SameLoads
  <1>18. W \ {t} = Rest /\ T[t] = q
    BY <1>5, <1>8, <1>14, <1>15
  <1>19. SumOf(Loads(T, i), W) =
            (IF op = "dispatch" THEN C ELSE 0) + SumOf(Loads(transfer, i), Rest)
    BY <1>7, <1>12, <1>14, <1>16, <1>17, <1>18
  <1>20. SumOf(Loads(transfer, i), OnWay) =
            (IF r.status = "dispatched" THEN C ELSE 0) + SumOf(Loads(transfer, i), Rest)
    BY <1>3, <1>11, <1>13
  <1>21. SumOf(Loads(transfer, i), OnWay)' = SumOf(Loads(T, i), W)
    BY <1>14, <1>15
  <1>22. Site(op, t) \in Warehouses
    BY <1>3 DEF Site, Transfer
  <1> HIDE DEF C, Rest
  <1>23. CASE op = "dispatch"
    <2>1. Moves(op, t) /\ Sign(op) = -1 /\ r.status = "draft"
      BY <1>1, <1>3, <1>23 DEF Moves, Sign, Fits, StatusOf
    <2>2. Sign(op) * Carried(t, i) = -C
      BY <1>7, <2>1
    <2> QED BY <1>7, <1>9, <1>13, <1>19, <1>20, <1>21, <1>22, <1>23, <2>1, <2>2
  <1>24. CASE op # "dispatch" /\ r.status = "dispatched"
    <2>1. Moves(op, t) /\ Sign(op) = 1
      BY <1>3, <1>24 DEF Moves, Sign
    <2>2. Sign(op) * Carried(t, i) = C
      BY <1>7, <2>1
    <2> QED BY <1>7, <1>9, <1>13, <1>19, <1>20, <1>21, <1>22, <1>24, <2>1, <2>2
  <1>25. CASE op # "dispatch" /\ r.status # "dispatched"
    <2>1. ~ Moves(op, t)
      BY <1>1, <1>3, <1>25 DEF Moves, Fits, StatusOf, TransferOps
    <2> QED BY <1>7, <1>9, <1>13, <1>19, <1>20, <1>21, <1>22, <1>25, <2>1
  <1> QED BY <1>23, <1>24, <1>25

LEMMA BalancedKept ==
    ASSUME DocsInv, DocsInv', DocStep, HalfDone, PendingNet, IsFiniteSet(OnWay), Balanced
    PROVE  IsFiniteSet(OnWay)' /\ Balanced'
  <1>1. DocTypes /\ DocTypes' /\ TypeOK
    BY DEF DocsInv, OversellInv, LedgerInv
  <1>2. CASE /\ hist' = hist /\ level' = level /\ OnWay' = OnWay
             /\ \A t \in OnWay : transfer'[t] = transfer[t]
    <2>1. \A i : SumOf(Loads(transfer', i), OnWay) = SumOf(Loads(transfer, i), OnWay)
      BY <1>2, SameLoads DEF OnWay
    <2> QED BY <1>2, <2>1 DEF Balanced
  <1>3. CASE Created
    <2>1. PICK u \in Transfers, d \in Transfer :
             /\ transfer[u] = NoDoc /\ d.status = "draft"
             /\ transfer' = [transfer EXCEPT ![u] = d] /\ hist' = hist /\ level' = level
      BY <1>3 DEF Created
    <2>2. transfer'[u] = d /\ \A t \in Transfers : t # u => transfer'[t] = transfer[t]
      BY <1>1, <2>1 DEF DocTypes
    <2>3. StatusOf(transfer[u]) = "none" /\ StatusOf(transfer'[u]) = "draft"
      BY <2>1, <2>2, DocSets DEF StatusOf
    <2>4. OnWay' = OnWay /\ \A t \in OnWay : transfer'[t] = transfer[t]
      BY <2>2, <2>3 DEF OnWay
    <2> QED BY <1>2, <2>1, <2>4
  <1>4. ASSUME NEW s \in Sessions, Published(s), txn[s].doc \notin Transfers
        PROVE  IsFiniteSet(OnWay)' /\ Balanced'
    <2>1. transfer' = transfer
      BY <1>4, TransferHeld DEF Published
    <2>2. OnWay' = OnWay
      BY <2>1 DEF OnWay
    <2>3. ASSUME NEW i \in Items
          PROVE  SumOf(Levels(level', i), Warehouses) + SumOf(Loads(transfer, i), OnWay)
                    = SumOf(Nets(hist', i), Warehouses)
      <3>1. SumOf(Levels(level', i), Warehouses) - SumOf(Levels(level, i), Warehouses)
              = SumOf(Nets(hist', i), Warehouses) - SumOf(Nets(hist, i), Warehouses)
        BY <1>4, OthersBalanced
      <3>2. SumOf(Levels(level, i), Warehouses) + SumOf(Loads(transfer, i), OnWay)
              = SumOf(Nets(hist, i), Warehouses)
        BY DEF Balanced
      <3>3. /\ SumOf(Levels(level', i), Warehouses) \in Int
            /\ SumOf(Levels(level, i), Warehouses) \in Int
            /\ SumOf(Nets(hist', i), Warehouses) \in Int
            /\ SumOf(Nets(hist, i), Warehouses) \in Int
        BY SumTypes DEF DocsInv, OversellInv, LedgerInv, TypeOK
      <3>4. SumOf(Loads(transfer, i), OnWay) \in Int
        <4>1. \A u \in OnWay : transfer[u] \in Transfer
          BY <1>1 DEF OnWay, DocTypes, StatusOf
        <4>2. \A u \in OnWay : Loads(transfer, i)[u] \in Int
          BY <4>1, CarriedByInt DEF Loads, OnWay
        <4> QED BY <4>2, SumType
      <3> QED BY <3>1, <3>2, <3>3, <3>4
    <2> QED BY <2>1, <2>2, <2>3 DEF Balanced
  <1>5. ASSUME NEW s \in Sessions, Published(s), txn[s].doc \in Transfers
        PROVE  IsFiniteSet(OnWay)' /\ Balanced'
    <2>1. PICK op \in TransferOps, t \in Transfers : op = txn[s].op /\ t = txn[s].doc
      BY <1>5, TransferHeld
    <2>2. Shifted(op, t)
      BY <1>5, <2>1, WholeTransfer
    <2>3. ASSUME NEW i \in Items
          PROVE  /\ IsFiniteSet(OnWay)'
                 /\ SumOf(Levels(level', i), Warehouses) + SumOf(Loads(transfer, i), OnWay)'
                      = SumOf(Nets(hist', i), Warehouses)
      <3>1. /\ IsFiniteSet(OnWay)' /\ Site(op, t) \in Warehouses /\ Carried(t, i) \in Int
            /\ SumOf(Loads(transfer, i), OnWay) \in Int
            /\ SumOf(Loads(transfer, i), OnWay)' =
                  SumOf(Loads(transfer, i), OnWay)
                     - (IF Moves(op, t) THEN Sign(op) * Carried(t, i) ELSE 0)
        BY <1>5, <2>1, WayChanges
      <3>2. PICK c \in Int : c = IF Moves(op, t) THEN Sign(op) * Carried(t, i) ELSE 0
        BY <3>1 DEF Sign
      <3>3. SumOf(Levels(level', i), Warehouses) = SumOf(Levels(level, i), Warehouses) + c
        BY <2>2, <3>1, <3>2, OneWarehouse
      <3>4. \A l \in Loc : /\ level[l] \in Int /\ hist[l] \in Seq(Movement)
                           /\ level'[l] \in Int /\ hist'[l] \in Seq(Movement)
        BY DEF DocsInv, OversellInv, LedgerInv, TypeOK
      <3>5. \A w \in Warehouses : Nets(hist', i)[w] = Nets(hist, i)[w]
        <4>1. \A l \in Loc : Net(hist'[l]) = Net(hist[l])
          BY <1>5, PublishNet
        <4> QED BY <4>1 DEF Nets, Loc
      <3>6. IsFiniteSet(Warehouses) /\ SumOf(Levels(level, i), Warehouses) \in Int
        BY <3>4, SumTypes
      <3>7. SumOf(Nets(hist', i), Warehouses) = SumOf(Nets(hist, i), Warehouses)
        BY <3>5, <3>6, SumSame
      <3>8. SumOf(Levels(level, i), Warehouses) + SumOf(Loads(transfer, i), OnWay)
              = SumOf(Nets(hist, i), Warehouses)
        BY DEF Balanced
      <3>9. SumOf(Loads(transfer, i), OnWay)' = SumOf(Loads(transfer, i), OnWay) - c
        BY <3>1, <3>2
      <3> QED BY <3>1, <3>3, <3>6, <3>7, <3>8, <3>9
    <2>4. IsFiniteSet(OnWay)'
      <3>1. transfer' = [transfer EXCEPT ![t] = [transfer[t] EXCEPT !.status = NewStatus[op]]]
        BY <1>5, <2>1, WholeTransfer DEF Settled
      <3>2. OnWay' \subseteq OnWay \cup {t}
        BY <1>1, <3>1 DEF OnWay, DocTypes
      <3>3. IsFiniteSet(OnWay \cup {t})
        BY FS_AddElement
      <3> QED BY <3>2, <3>3, FS_Subset
    <2> QED BY <2>3, <2>4 DEF Balanced
  <1>6. CASE Calm \/ \E s \in Sessions : Begun(s) \/ Lined(s) \/ Dropped(s)
    <2>1. ASSUME NEW s \in Sessions, Lined(s)
          PROVE  hist' = hist /\ level' = level /\ transfer' = transfer
      BY <2>1 DEF Lined, RecordMovement, SkipImportRow
    <2>2. hist' = hist /\ level' = level /\ transfer' = transfer
      BY <1>6, <2>1 DEF Calm, Begun, Dropped
    <2> QED BY <1>2, <2>2 DEF OnWay
  <1> QED BY <1>3, <1>4, <1>5, <1>6 DEF DocStep

-----------------------------------------------------------------------------
(* The sums that StockDocuments writes as folds                            *)

OtherNets(i) == [w \in Warehouses |-> NetOther(<<w, i>>)]

LEMMA OnHandIsSum ==
    ASSUME NEW i
    PROVE  OnHand(i) = SumOf(Levels(level, i), Warehouses)
  <1> DEFINE S == Warehouses
             f == Levels(level, i)
             Fold(g) == g = [s \in SUBSET S |->
                               IF s = {} THEN 0
                               ELSE level[<<Pick(s), i>>] + g[s \ {Pick(s)}]]
             h == CHOOSE g : Fold(g)
  <1>1. OnHand(i) = h[S]
    BY DEF OnHand, Sum, MapThenSumSet, MapThenFoldSet, Pick
  <1>2. ASSUME NEW s \in SUBSET S, s # {} PROVE f[Pick(s)] = level[<<Pick(s), i>>]
    <2>1. Pick(s) \in S
      BY <1>2 DEF Pick
    <2> QED BY <2>1 DEF Levels
  <1>3. \A g : Fold(g) <=> IsSum(f, S, g)
    BY <1>2 DEF IsSum
  <1>4. IsSum(f, S, PartialSums(f, S))
    BY StockConstants, SumExists
  <1>5. IsSum(f, S, h)
    BY <1>3, <1>4
  <1>6. IsFiniteSet(S)
    BY StockConstants
  <1> HIDE DEF f, h, S
  <1>7. h[S] = PartialSums(f, S)[S]
    BY <1>4, <1>5, <1>6, SumIsUnique
  <1>8. SumOf(f, S) = PartialSums(f, S)[S]
    BY SumIsFold
  <1> QED BY <1>1, <1>7, <1>8 DEF f, S

LEMMA RowQtyIsSum ==
    ASSUME NEW t, NEW i, IsFiniteSet(DOMAIN transfer[t].rows)
    PROVE  RowQty(t, i) = SumOf(Amounts(transfer[t].rows, i), DOMAIN transfer[t].rows)
  <1> DEFINE S == DOMAIN transfer[t].rows
             f == Amounts(transfer[t].rows, i)
             Qty(k) == IF transfer[t].rows[k].item = i THEN transfer[t].rows[k].qty ELSE 0
             Fold(g) == g = [s \in SUBSET S |->
                               IF s = {} THEN 0
                               ELSE Qty(Pick(s)) + g[s \ {Pick(s)}]]
             h == CHOOSE g : Fold(g)
  <1>1. RowQty(t, i) = h[S]
    BY DEF RowQty, Sum, MapThenSumSet, MapThenFoldSet, Pick
  <1>2. ASSUME NEW s \in SUBSET S, s # {} PROVE f[Pick(s)] = Qty(Pick(s))
    <2>1. Pick(s) \in S
      BY <1>2 DEF Pick
    <2> QED BY <2>1 DEF Amounts
  <1>3. \A g : Fold(g) <=> IsSum(f, S, g)
    BY <1>2 DEF IsSum
  <1>4. IsSum(f, S, PartialSums(f, S))
    BY SumExists
  <1>5. IsSum(f, S, h)
    BY <1>3, <1>4
  <1>6. IsFiniteSet(S)
    OBVIOUS
  <1> HIDE DEF f, h, S
  <1>7. h[S] = PartialSums(f, S)[S]
    BY <1>4, <1>5, <1>6, SumIsUnique
  <1>8. SumOf(f, S) = PartialSums(f, S)[S]
    BY SumIsFold
  <1> QED BY <1>1, <1>7, <1>8 DEF f, S

LEMMA InTransitIsSum ==
    ASSUME NEW i, IsFiniteSet(OnWay)
    PROVE  InTransit(i) = SumOf([t \in Transfers |-> RowQty(t, i)], OnWay)
  <1> DEFINE S == OnWay
             f == [t \in Transfers |-> RowQty(t, i)]
             Fold(g) == g = [s \in SUBSET S |->
                               IF s = {} THEN 0
                               ELSE RowQty(Pick(s), i) + g[s \ {Pick(s)}]]
             h == CHOOSE g : Fold(g)
  <1>1. InTransit(i) = h[S]
    BY DEF InTransit, OnWay, Sum, MapThenSumSet, MapThenFoldSet, Pick
  <1>2. ASSUME NEW s \in SUBSET S, s # {} PROVE f[Pick(s)] = RowQty(Pick(s), i)
    <2>1. Pick(s) \in S
      BY <1>2 DEF Pick
    <2> QED BY <2>1 DEF OnWay
  <1>3. \A g : Fold(g) <=> IsSum(f, S, g)
    BY <1>2 DEF IsSum
  <1>4. IsSum(f, S, PartialSums(f, S))
    BY SumExists
  <1>5. IsSum(f, S, h)
    BY <1>3, <1>4
  <1>6. IsFiniteSet(S)
    OBVIOUS
  <1> HIDE DEF f, h, S
  <1>7. h[S] = PartialSums(f, S)[S]
    BY <1>4, <1>5, <1>6, SumIsUnique
  <1>8. SumOf(f, S) = PartialSums(f, S)[S]
    BY SumIsFold
  <1> QED BY <1>1, <1>7, <1>8 DEF f, S

LEMMA NetOtherIsNet ==
    ASSUME NEW l, hist[l] \in Seq(Movement)
    PROVE  NetOther(l) = SumOf(Quantities(hist[l]), OtherMoves(hist[l]))
  <1> DEFINE S == OtherMoves(hist[l])
             f == Quantities(hist[l])
             Fold(g) == g = [s \in SUBSET S |->
                               IF s = {} THEN 0
                               ELSE hist[l][Pick(s)].qty + g[s \ {Pick(s)}]]
             h == CHOOSE g : Fold(g)
  <1>1. NetOther(l) = h[S]
    BY DEF NetOther, OtherMoves, Sum, MapThenSumSet, MapThenFoldSet, Pick
  <1>2. ASSUME NEW s \in SUBSET S, s # {} PROVE f[Pick(s)] = hist[l][Pick(s)].qty
    <2>1. Pick(s) \in S
      BY <1>2 DEF Pick
    <2> QED BY <2>1 DEF Quantities, OtherMoves
  <1>3. \A g : Fold(g) <=> IsSum(f, S, g)
    BY <1>2 DEF IsSum
  <1>4. IsSum(f, S, PartialSums(f, S))
    BY NetFacts, SumExists
  <1>5. IsSum(f, S, h)
    BY <1>3, <1>4
  <1>6. IsFiniteSet(S)
    BY NetFacts
  <1> HIDE DEF f, h, S
  <1>7. h[S] = PartialSums(f, S)[S]
    BY <1>4, <1>5, <1>6, SumIsUnique
  <1>8. SumOf(f, S) = PartialSums(f, S)[S]
    BY SumIsFold
  <1> QED BY <1>1, <1>7, <1>8 DEF f, S

LEMMA NetsIsSum ==
    ASSUME NEW i
    PROVE  Sum(Warehouses, LAMBDA w : NetOther(<<w, i>>)) = SumOf(OtherNets(i), Warehouses)
  <1> DEFINE S == Warehouses
             f == OtherNets(i)
             Fold(g) == g = [s \in SUBSET S |->
                               IF s = {} THEN 0
                               ELSE NetOther(<<Pick(s), i>>) + g[s \ {Pick(s)}]]
             h == CHOOSE g : Fold(g)
  <1>1. Sum(Warehouses, LAMBDA w : NetOther(<<w, i>>)) = h[S]
    BY DEF Sum, MapThenSumSet, MapThenFoldSet, Pick
  <1>2. ASSUME NEW s \in SUBSET S, s # {} PROVE f[Pick(s)] = NetOther(<<Pick(s), i>>)
    <2>1. Pick(s) \in S
      BY <1>2 DEF Pick
    <2> QED BY <2>1 DEF OtherNets
  <1>3. \A g : Fold(g) <=> IsSum(f, S, g)
    BY <1>2 DEF IsSum
  <1>4. IsSum(f, S, PartialSums(f, S))
    BY StockConstants, SumExists
  <1>5. IsSum(f, S, h)
    BY <1>3, <1>4
  <1>6. IsFiniteSet(S)
    BY StockConstants
  <1> HIDE DEF f, h, S
  <1>7. h[S] = PartialSums(f, S)[S]
    BY <1>4, <1>5, <1>6, SumIsUnique
  <1>8. SumOf(f, S) = PartialSums(f, S)[S]
    BY SumIsFold
  <1> QED BY <1>1, <1>7, <1>8 DEF f, S

LEMMA BalancedIsConserved ==
    ASSUME DocsInv, IsFiniteSet(OnWay), Balanced
    PROVE  TransfersConserveStock
  <1>1. TypeOK /\ DocTypes
    BY DEF DocsInv, OversellInv, LedgerInv
  <1> SUFFICES ASSUME NEW i \in Items
               PROVE  OnHand(i) + InTransit(i) = Sum(Warehouses, LAMBDA w : NetOther(<<w, i>>))
    BY DEF TransfersConserveStock
  <1>2. \A t \in OnWay : RowQty(t, i) = CarriedBy(transfer[t], i)
    <2> SUFFICES ASSUME NEW t \in OnWay PROVE RowQty(t, i) = CarriedBy(transfer[t], i)
      OBVIOUS
    <2>1. transfer[t].rows \in Rows
      BY <1>1 DEF OnWay, DocTypes, StatusOf, Transfer
    <2>2. PICK n \in Nat : DOMAIN transfer[t].rows = 1 .. n
      BY <2>1, TypedRows
    <2>3. IsFiniteSet(DOMAIN transfer[t].rows)
      BY <2>2, FS_Interval
    <2> QED BY <2>3, RowQtyIsSum DEF CarriedBy
  <1>3. InTransit(i) = SumOf(Loads(transfer, i), OnWay)
    <2> DEFINE f == [t \in Transfers |-> RowQty(t, i)]
               g == Loads(transfer, i)
    <2>1. \A t \in OnWay : f[t] = g[t]
      BY <1>2 DEF Loads, OnWay
    <2> HIDE DEF f, g
    <2>2. SumOf(f, OnWay) = SumOf(g, OnWay)
      BY <2>1, SumSame
    <2> QED BY <2>2, InTransitIsSum DEF f, g
  <1>4. Sum(Warehouses, LAMBDA w : NetOther(<<w, i>>)) = SumOf(Nets(hist, i), Warehouses)
    <2> DEFINE f == OtherNets(i)
               g == Nets(hist, i)
    <2>1. \A w \in Warehouses : NetOther(<<w, i>>) = Net(hist[<<w, i>>])
      <3>1. \A l \in Loc : hist[l] \in Seq(Movement)
        BY <1>1 DEF TypeOK
      <3>2. \A l \in Loc : NetOther(l) = Net(hist[l])
        BY <3>1, NetOtherIsNet DEF Net
      <3> QED BY <3>2 DEF Loc
    <2>2. \A w \in Warehouses : f[w] = g[w]
      BY <2>1 DEF Nets, OtherNets
    <2> HIDE DEF f, g
    <2>3. SumOf(f, Warehouses) = SumOf(g, Warehouses)
      BY <2>2, SumSame, StockConstants
    <2> QED BY <2>3, NetsIsSum DEF f, g
  <1>5. OnHand(i) = SumOf(Levels(level, i), Warehouses)
    BY OnHandIsSum
  <1> QED BY <1>3, <1>4, <1>5 DEF Balanced

LEMMA TransfersInvKept ==
    ASSUME DocsInv, TransfersInv, [Next]_vars
    PROVE  TransfersInv'
  <1>1. DocsInv' /\ DocStep
    BY DocSteps
  <1>2. HalfDone' /\ PendingNet'
    BY HalfDoneKept, PendingNetKept DEF TransfersInv
  <1>3. AllTold' /\ RefsExist'
    BY <1>1, AllToldKept, RefsExistKept DEF TransfersInv
  <1>4. IsFiniteSet(OnWay)' /\ Balanced'
    BY <1>1, BalancedKept DEF TransfersInv
  <1> QED BY <1>2, <1>3, <1>4 DEF TransfersInv

LEMMA LegacyFacts ==
    ASSUME NEW l \in Loc
    PROVE  \/ /\ LegacyHistory(l) = <<>> /\ DOMAIN LegacyHistory(l) = {}
              /\ l[2] \in MeterParents => Legacy[l] = 0
           \/ /\ l[2] \in MeterParents /\ Legacy[l] \in Int
              /\ DOMAIN LegacyHistory(l) = {1}
              /\ LegacyHistory(l)[1].qty = Legacy[l] /\ LegacyHistory(l)[1].ref = Direct
  <1>1. CASE l[2] \in MeterParents /\ Legacy[l] # 0
    <2>1. Legacy[l] \in Int
      BY <1>1, StockConstants DEF Loc
    <2>2. PICK e : /\ LegacyHistory(l) = <<e>> /\ e.qty = Legacy[l] /\ e.ref = Direct
      BY <1>1 DEF LegacyHistory
    <2>3. DOMAIN <<e>> = {1} /\ <<e>>[1] = e
      OBVIOUS
    <2> QED BY <1>1, <2>1, <2>2, <2>3
  <1>2. CASE ~ (l[2] \in MeterParents /\ Legacy[l] # 0)
    <2>1. LegacyHistory(l) = <<>>
      BY <1>2 DEF LegacyHistory
    <2>2. DOMAIN <<>> = {}
      OBVIOUS
    <2> QED BY <1>2, <2>1, <2>2
  <1> QED BY <1>1, <1>2

LEMMA InitTransfersInv ==
    ASSUME Init
    PROVE  TransfersInv
  <1>1. HalfDone
    BY InitHalfDone
  <1>2. TypeOK /\ DocTypes
    BY InitDocsInv DEF DocsInv, OversellInv, LedgerInv
  <1>3. \A t \in Transfers : transfer[t] = NoDoc
    BY DEF Init
  <1>4. AllTold /\ OnWay = {}
    BY <1>3 DEF AllTold, OnWay, StatusOf
  <1>5. \A l \in Loc : /\ hist[l] \in Seq(Movement) /\ level[l] \in Int
                       /\ hist[l] = LegacyHistory(l)
                       /\ level[l] = IF l[2] \in MeterParents THEN Legacy[l] ELSE 0
                       /\ \A s \in Sessions : pending[s][l] = <<>>
    BY <1>2 DEF Init, InitLedger, NothingPending, TypeOK
  <1>6. ASSUME NEW l \in Loc, NEW n \in DOMAIN hist[l] PROVE hist[l][n].ref.doc \notin Transfers
    <2>1. n = 1 /\ hist[l][1].ref = Direct
      BY <1>5, <1>6, LegacyFacts
    <2> QED BY <2>1, DocSets DEF Direct
  <1>7. RefsExist
    BY <1>6 DEF RefsExist
  <1>8. PendingNet
    <2> SUFFICES ASSUME NEW s \in Sessions, NEW l \in Loc
                 PROVE  Net(hist[l] \o pending[s][l]) = Net(hist[l])
                           + (IF txn[s].doc \in Transfers THEN 0 ELSE View(s, l) - level[l])
      BY DEF PendingNet
    <2>1. pending[s][l] = <<>> /\ View(s, l) = level[l] /\ level[l] \in Int
      BY <1>5 DEF View
    <2>2. hist[l] \o <<>> = hist[l] /\ Net(hist[l]) \in Int
      BY <1>5, NetFacts
    <2> QED BY <2>1, <2>2
  <1>9. \A l \in Loc : Net(hist[l]) = level[l]
    <2> SUFFICES ASSUME NEW l \in Loc PROVE Net(hist[l]) = level[l]
      OBVIOUS
    <2>1. OtherMoves(hist[l]) = DOMAIN hist[l]
      BY <1>6 DEF OtherMoves
    <2>2. CASE hist[l] = <<>>
      <3>1. DOMAIN hist[l] = {}
        BY <2>2
      <3>2. Net(hist[l]) = 0
        BY <2>1, <3>1, FS_EmptySet, SumStep DEF Net
      <3>3. level[l] = 0
        BY <1>5, <3>1, LegacyFacts
      <3> QED BY <3>2, <3>3
    <2>3. CASE hist[l] # <<>>
      <3>1. hist[l] = LegacyHistory(l) /\ level[l] = Legacy[l] /\ DOMAIN hist[l] = {1}
            /\ hist[l][1].qty = Legacy[l] /\ Legacy[l] \in Int
        BY <1>5, <2>3, LegacyFacts
      <3>2. Quantities(hist[l])[1] = Legacy[l]
        BY <3>1 DEF Quantities
      <3>3. SumOf(Quantities(hist[l]), {} \cup {1}) =
               Quantities(hist[l])[1] + SumOf(Quantities(hist[l]), {})
        BY <3>1, <3>2, FS_EmptySet, SumAdd
      <3>4. SumOf(Quantities(hist[l]), {}) = 0
        BY FS_EmptySet, SumStep
      <3> QED BY <2>1, <3>1, <3>2, <3>3, <3>4 DEF Net
    <2> QED BY <2>2, <2>3
  <1>10. IsFiniteSet(OnWay) /\ \A i : SumOf(Loads(transfer, i), OnWay) = 0
    BY <1>4, FS_EmptySet, SumStep
  <1>11. ASSUME NEW i \in Items
         PROVE  SumOf(Levels(level, i), Warehouses) + SumOf(Loads(transfer, i), OnWay)
                   = SumOf(Nets(hist, i), Warehouses)
    <2>1. /\ IsFiniteSet(Warehouses) /\ SumOf(Levels(level, i), Warehouses) \in Int
          /\ \A w \in Warehouses : <<w, i>> \in Loc
          /\ \A w \in Warehouses : /\ Levels(level, i)[w] = level[<<w, i>>]
                                   /\ Nets(hist, i)[w] = Net(hist[<<w, i>>])
      BY <1>5, SumTypes
    <2>2. \A w \in Warehouses : Levels(level, i)[w] = Nets(hist, i)[w]
      BY <1>9, <2>1
    <2>3. SumOf(Levels(level, i), Warehouses) = SumOf(Nets(hist, i), Warehouses)
      BY <2>1, <2>2, SumSame
    <2> QED BY <1>10, <2>1, <2>3
  <1> QED BY <1>1, <1>4, <1>7, <1>8, <1>10, <1>11 DEF TransfersInv, Balanced

\* Goods are neither lost nor made by moving them, and each leg of each row is in
\* the ledger as often as the status of the transfer says: however the requests of
\* create_transfer, dispatch_transfer, receive_transfer and cancel_transfer, and
\* those of other documents, interleave.
THEOREM TransfersNeitherLoseNorMake == DocSpec => []TransfersAddUp
  <1>1. Init => DocsInv /\ TransfersInv
    BY InitDocsInv, InitTransfersInv
  <1>2. DocsInv /\ TransfersInv /\ [Next]_vars => DocsInv' /\ TransfersInv'
    BY DocSteps, TransfersInvKept
  <1>3. DocsInv /\ TransfersInv => TransfersAddUp
    BY ToldIsLegs, BalancedIsConserved DEF DocsInv, TransfersInv, TransfersAddUp
  <1> QED BY <1>1, <1>2, <1>3, PTL DEF DocSpec

-----------------------------------------------------------------------------
(* Meter parents                                                           *)

\* A Meter parent still has its legacy balance and at most the movement of it, or
\* was set to zero by one correction.  A request that corrects it has found it
\* above or below zero, and it holds the product.
MetersKept == \A l \in Loc : l[2] \in MeterParents =>
    /\ \/ level[l] = Legacy[l] /\ Len(hist[l]) <= 1
       \/ level[l] = 0 /\ Len(hist[l]) <= 2
    /\ \A s \in Sessions : pending[s][l] # <<>> =>
          Len(pending[s][l]) = 1 /\ View(s, l) = 0 /\ level[l] # 0

LEMMA MetersKeptBySteps ==
    ASSUME DocsInv, MetersKept, DocStep, DocsInv'
    PROVE  MetersKept'
  <1>1. LedgerInv /\ TypeOK /\ TypeOK'
    BY DEF DocsInv, OversellInv, LedgerInv
  <1> SUFFICES ASSUME NEW l \in Loc, l[2] \in MeterParents
               PROVE  /\ \/ level'[l] = Legacy[l] /\ Len(hist'[l]) <= 1
                         \/ level'[l] = 0 /\ Len(hist'[l]) <= 2
                      /\ \A s \in Sessions : pending'[s][l] # <<>> =>
                            Len(pending'[s][l]) = 1 /\ View(s, l)' = 0 /\ level'[l] # 0
    BY DEF MetersKept
  <1>2. /\ hist[l] \in Seq(Movement) /\ level[l] \in Int
        /\ \A s \in Sessions : pending[s][l] \in Seq(Movement)
    BY <1>1 DEF TypeOK
  <1>3. /\ \/ level[l] = Legacy[l] /\ Len(hist[l]) <= 1
           \/ level[l] = 0 /\ Len(hist[l]) <= 2
        /\ \A s \in Sessions : pending[s][l] # <<>> =>
              Len(pending[s][l]) = 1 /\ View(s, l) = 0 /\ level[l] # 0
    BY DEF MetersKept
  \* Only a commit changes what is in the books.
  <1>4. ASSUME NEW r \in Sessions, Published(r)
        PROVE  \/ level'[l] = Legacy[l] /\ Len(hist'[l]) <= 1
               \/ level'[l] = 0 /\ Len(hist'[l]) <= 2
    <2>1. level'[l] = View(r, l) /\ hist'[l] = hist[l] \o pending[r][l]
      BY <1>4 DEF Published, Publish
    <2>2. CASE pending[r][l] = <<>>
      <3>1. level'[l] = level[l] /\ hist'[l] = hist[l]
        BY <1>2, <2>1, <2>2, NetFacts DEF View
      <3> QED BY <1>3, <3>1
    <2>3. CASE pending[r][l] # <<>>
      <3>1. Len(pending[r][l]) = 1 /\ level'[l] = 0 /\ Len(hist[l]) <= 1
        BY <1>3, <2>1, <2>3
      <3>2. Len(hist'[l]) = Len(hist[l]) + Len(pending[r][l]) /\ Len(hist[l]) \in Nat
        BY <1>2, <2>1
      <3>3. Len(hist'[l]) <= 2
        BY <3>1, <3>2
      <3> QED BY <3>1, <3>3
    <2> QED BY <2>2, <2>3
  <1>5. \/ level'[l] = Legacy[l] /\ Len(hist'[l]) <= 1
        \/ level'[l] = 0 /\ Len(hist'[l]) <= 2
    <2>1. (level' = level /\ hist' = hist) \/ \E r \in Sessions : Published(r)
      <3>1. ASSUME NEW s \in Sessions, Lined(s) PROVE level' = level /\ hist' = hist
        BY <3>1 DEF Lined, RecordMovement, SkipImportRow
      <3> QED BY <3>1 DEF DocStep, Calm, Created, Begun, Dropped
    <2> QED BY <1>3, <1>4, <2>1
  <1>6. ASSUME NEW s \in Sessions, pending'[s][l] # <<>>
        PROVE  Len(pending'[s][l]) = 1 /\ View(s, l)' = 0 /\ level'[l] # 0
    <2>1. /\ level'[l] = level[l]
          /\ \/ pending'[s][l] = pending[s][l]
             \/ /\ RecordMovement(s) /\ l = Place(Current(s))
                /\ pending'[s][l] = Append(pending[s][l], Entry(s, Current(s)))
      BY <1>6, PendingSteps
    <2>2. CASE pending'[s][l] = pending[s][l]
      <3>1. View(s, l)' = View(s, l)
        BY <2>1, <2>2 DEF View
      <3> QED BY <1>3, <1>6, <2>1, <2>2, <3>1
    <2>3. CASE /\ RecordMovement(s) /\ l = Place(Current(s))
               /\ pending'[s][l] = Append(pending[s][l], Entry(s, Current(s)))
      <3>1. PICK m \in Line : m = Current(s) /\ txn[s].todo # <<>>
        BY <1>1, <2>3, LineFacts
      <3>2. View(s, l) # 0 /\ View(s, l) + Delta(s, m) = 0
        BY <2>3, <3>1 DEF RecordMovement, Refused, MeterParentRefused, Place
      <3>3. pending[s][l] = <<>> /\ level[l] # 0
        <4>1. pending[s][l] = <<>>
          BY <1>3, <3>2
        <4> QED BY <3>2, <4>1 DEF View
      <3>4. PICK e \in Movement : e = Entry(s, m) /\ e.balance = View(s, l) + Delta(s, m)
        BY <1>1, <2>3, <3>1, TypedEntry DEF Entry
      <3>5. pending'[s][l] = Append(<<>>, e)
        BY <2>3, <3>1, <3>3, <3>4
      <3>6. Len(pending'[s][l]) = 1 /\ pending'[s][l][1] = e
        BY <3>5
      <3>7. View(s, l)' = 0
        BY <1>6, <3>2, <3>4, <3>6 DEF View
      <3> QED BY <2>1, <3>3, <3>6, <3>7
    <2> QED BY <2>1, <2>2, <2>3
  <1> QED BY <1>5, <1>6

\* record_movement refuses every movement of a Meter parent but the correction
\* that brings it to zero, and only one request at a time gets as far as to post
\* one: so its balance is the legacy one or zero, with two movements at most.
THEOREM MeterParentsOnlyRepaired == DocSpec => []MeterParentOnlyRepaired
  <1>1. Init => DocsInv /\ MetersKept
    <2> SUFFICES ASSUME Init PROVE MetersKept
      BY InitDocsInv
    <2>1. \A l \in Loc : /\ hist[l] = LegacyHistory(l)
                         /\ level[l] = IF l[2] \in MeterParents THEN Legacy[l] ELSE 0
                         /\ \A s \in Sessions : pending[s][l] = <<>>
      BY DEF Init, InitLedger, NothingPending
    <2>2. \A l \in Loc : Len(LegacyHistory(l)) <= 1
      BY DEF LegacyHistory
    <2> QED BY <2>1, <2>2 DEF MetersKept
  <1>2. DocsInv /\ MetersKept /\ [Next]_vars => DocsInv' /\ MetersKept'
    BY DocSteps, MetersKeptBySteps
  <1>3. DocsInv /\ MetersKept => MeterParentOnlyRepaired
    <2> SUFFICES ASSUME DocsInv, MetersKept, NEW l \in Loc, l[2] \in MeterParents
                 PROVE  level[l] \in {Legacy[l], 0} /\ Len(hist[l]) <= 2
      BY DEF MeterParentOnlyRepaired
    <2>1. \/ level[l] = Legacy[l] /\ Len(hist[l]) <= 1
          \/ level[l] = 0 /\ Len(hist[l]) <= 2
      BY DEF MetersKept
    <2>2. Len(hist[l]) \in Nat
      BY DEF DocsInv, OversellInv, LedgerInv, TypeOK
    <2> QED BY <2>1, <2>2
  <1> QED BY <1>1, <1>2, <1>3, PTL DEF DocSpec

-----------------------------------------------------------------------------
(* The moving average                                                      *)

\* Movements as a set: of one location, and of one item wherever it is kept.
Entries(h) == {h[n] : n \in DOMAIN h}
MovesOf(H, i) == UNION {Entries(H[<<w, i>>]) : w \in Warehouses}

\* An average is fair to some movements if it is between the unit costs paid,
\* where stock without a cost can only have pulled it down.
Inbound(M) == {m \in M : m.qty > 0}
Costs(M) == {m.cost : m \in {x \in Inbound(M) : x.type \in InboundAveragesCost}} \ {0}
AllPaid(M) == \A m \in Inbound(M) : m.cost # 0 /\ m.type \in InboundAveragesCost
Fair(M, a) ==
    /\ Costs(M) = {} => a = 0
    /\ Costs(M) # {} => \E c \in Costs(M) : a <= c
    /\ Costs(M) # {} /\ AllPaid(M) => \E c \in Costs(M) : c <= a

\* Stock above zero has come from somewhere.
Backed(M, n) == n > 0 => Inbound(M) # {}

\* The committed average is fair to the ledger, and what a request sees is fair to
\* the ledger with the request's own movements.
FairAverages ==
    /\ avg \in [Items -> Nat]
    /\ newAvg \in [Sessions -> [Items -> Nat \cup {-1}]]
    /\ \A i \in Items : Fair(MovesOf(hist, i), avg[i])
    /\ \A s \in Sessions, i \in Items :
          Fair(MovesOf(hist, i) \cup MovesOf(pending[s], i), AverageCost(s, i))
    /\ \A s \in Sessions, i \in Items : MovesOf(pending[s], i) = {} => newAvg[s][i] = -1
    /\ \A l \in Loc : Backed(Entries(hist[l]), level[l])
    /\ \A s \in Sessions, l \in Loc :
          Backed(Entries(hist[l]) \cup Entries(pending[s][l]), View(s, l))

LEMMA ProductGrows ==
    ASSUME NEW d \in Nat, NEW x \in Nat, NEW y \in Nat, y + 1 <= x
    PROVE  d * y + d <= d * x
  <1>1. PICK k \in Nat : x = y + 1 + k
    <2>1. x - y - 1 \in Nat /\ x = y + 1 + (x - y - 1)
      OBVIOUS
    <2> QED BY <2>1
  <1>2. d * x = d * y + d + d * k /\ d * k \in Nat /\ d * y \in Nat
    BY <1>1
  <1> QED BY <1>2

LEMMA ProductOrdered ==
    ASSUME NEW d \in Nat, NEW x \in Nat, NEW y \in Nat, y <= x
    PROVE  d * y <= d * x
  <1>1. CASE x = y
    BY <1>1
  <1>2. CASE y + 1 <= x
    <2>1. d * y + d <= d * x /\ d * y \in Nat /\ d * x \in Nat
      BY <1>2, ProductGrows
    <2> QED BY <2>1
  <1> QED BY <1>1, <1>2

\* Rounding does not cross a whole number.
LEMMA RoundedBetween ==
    ASSUME NEW n \in Nat, NEW d \in Nat \ {0}
    PROVE  /\ RoundHalfUp(n, d) \in Nat
           /\ \A b \in Nat : n <= d * b => RoundHalfUp(n, d) <= b
           /\ \A b \in Nat : d * b <= n => b <= RoundHalfUp(n, d)
  <1> DEFINE x == 2 * n + d
             y == 2 * d
             r == x \div y
  <1>1. x \in Nat /\ y \in Nat \ {0}
    OBVIOUS
  <1> HIDE DEF x, y
  <1>2. r \in Nat /\ y * r <= x /\ x < y * r + y
    BY <1>1
  <1> HIDE DEF r
  <1>3. y * r = 2 * (d * r) /\ d * r \in Nat
    BY <1>2 DEF y
  <1>4. 2 * (d * r) <= 2 * n + d /\ 2 * n < 2 * (d * r) + d
    BY <1>2, <1>3 DEF x, y
  <1>5. ASSUME NEW b \in Nat, n <= d * b PROVE r <= b
    <2> SUFFICES ASSUME b + 1 <= r PROVE FALSE
      BY <1>2
    <2>1. d * b + d <= d * r /\ d * b \in Nat
      BY <1>2, ProductGrows
    <2> QED BY <2>1, <1>3, <1>4, <1>5
  <1>6. ASSUME NEW b \in Nat, d * b <= n PROVE b <= r
    <2> SUFFICES ASSUME r + 1 <= b PROVE FALSE
      BY <1>2
    <2>1. d * r + d <= d * b /\ d * b \in Nat
      BY <1>2, ProductGrows
    <2> QED BY <2>1, <1>3, <1>4, <1>6
  <1>7. RoundHalfUp(n, d) = r
    BY DEF RoundHalfUp, r, x, y
  <1> QED BY <1>2, <1>5, <1>6, <1>7

\* _update_average_cost mixes what was there with what comes in.
LEMMA Mixed ==
    ASSUME NEW t \in Int, NEW q \in Nat \ {0}, NEW a \in Nat, NEW c \in Nat
    PROVE  /\ UpdatedAverage(t + q, q, a, c) \in Nat
           /\ \A b \in Nat : a <= b /\ c <= b => UpdatedAverage(t + q, q, a, c) <= b
           /\ \A b \in Nat : (t <= 0 \/ b <= a) /\ b <= c => b <= UpdatedAverage(t + q, q, a, c)
           /\ t <= 0 => UpdatedAverage(t + q, q, a, c) <= c
  <1>1. PICK e \in Nat : e = IF t < 0 THEN 0 ELSE t
    <2>1. (IF t < 0 THEN 0 ELSE t) \in Nat
      OBVIOUS
    <2> QED BY <2>1
  <1>2. PICK n \in Nat : n = e * a + q * c
    <2>1. e * a \in Nat /\ q * c \in Nat
      OBVIOUS
    <2> QED BY <2>1
  <1>3. PICK d \in Nat \ {0} : d = e + q
    <2>1. e + q \in Nat \ {0}
      OBVIOUS
    <2> QED BY <2>1
  <1>4. UpdatedAverage(t + q, q, a, c) = RoundHalfUp(n, d)
    <2>1. (IF t + q - q < 0 THEN 0 ELSE t + q - q) = e /\ ~ e + q <= 0
      BY <1>1
    <2> QED BY <2>1, <1>2, <1>3 DEF UpdatedAverage
  <1>5. \A b \in Nat : d * b = e * b + q * b
    BY <1>3
  <1>6. ASSUME NEW b \in Nat, t <= 0 \/ a <= b, c <= b PROVE n <= d * b
    <2>1. q * c <= q * b /\ q * c \in Nat /\ q * b \in Nat /\ e * a \in Nat /\ e * b \in Nat
      BY <1>6, ProductOrdered
    <2>2. e * a <= e * b
      <3>1. CASE t <= 0
        <4>1. e = 0
          BY <1>1, <3>1
        <4> QED BY <4>1
      <3>2. CASE a <= b
        BY <3>2, ProductOrdered
      <3> QED BY <1>6, <3>1, <3>2
    <2> QED BY <2>1, <2>2, <1>2, <1>5
  <1>7. ASSUME NEW b \in Nat, t <= 0 \/ b <= a, b <= c PROVE d * b <= n
    <2>1. q * b <= q * c /\ q * c \in Nat /\ q * b \in Nat /\ e * a \in Nat /\ e * b \in Nat
      BY <1>7, ProductOrdered
    <2>2. e * b <= e * a
      <3>1. CASE t <= 0
        <4>1. e = 0
          BY <1>1, <3>1
        <4> QED BY <4>1
      <3>2. CASE b <= a
        BY <3>2, ProductOrdered
      <3> QED BY <1>7, <3>1, <3>2
    <2> QED BY <2>1, <2>2, <1>2, <1>5
  <1> HIDE DEF UpdatedAverage
  <1>8. RoundHalfUp(n, d) \in Nat
    BY RoundedBetween
  <1>9. \A b \in Nat : a <= b /\ c <= b => RoundHalfUp(n, d) <= b
    BY <1>6, RoundedBetween
  <1>10. \A b \in Nat : (t <= 0 \/ b <= a) /\ b <= c => b <= RoundHalfUp(n, d)
    BY <1>7, RoundedBetween
  <1>11. ASSUME t <= 0 PROVE RoundHalfUp(n, d) <= c
    <2>1. n <= d * c
      BY <1>6, <1>11
    <2> QED BY <2>1, RoundedBetween
  <1> QED BY <1>4, <1>8, <1>9, <1>10, <1>11

LEMMA CostsAdded ==
    ASSUME NEW M, M \subseteq Movement, NEW e \in Movement
    PROVE  /\ Costs(M) \subseteq Nat \ {0}
           /\ Costs(M \cup {e}) =
                 IF e.qty > 0 /\ e.type \in InboundAveragesCost /\ e.cost # 0
                 THEN Costs(M) \cup {e.cost} ELSE Costs(M)
           /\ AllPaid(M \cup {e}) => AllPaid(M)
           /\ Costs(M) = {} /\ AllPaid(M) => Inbound(M) = {}
  <1>1. \A m \in M \cup {e} : m.cost \in Nat /\ m.qty \in Int
    BY DEF Movement
  <1>2. \A c : c \in Costs(M) <=> /\ c # 0
                                  /\ \E m \in M : /\ m.qty > 0 /\ m.cost = c
                                                  /\ m.type \in InboundAveragesCost
    BY DEF Costs, Inbound
  <1>3. \A c : c \in Costs(M \cup {e}) <=>
                  /\ c # 0
                  /\ \E m \in M \cup {e} : /\ m.qty > 0 /\ m.cost = c
                                           /\ m.type \in InboundAveragesCost
    BY DEF Costs, Inbound
  <1>4. Costs(M) \subseteq Nat \ {0}
    BY <1>1, <1>2
  <1>5. \A c : c \in Costs(M \cup {e}) <=>
                  \/ c \in Costs(M)
                  \/ c = e.cost /\ e.qty > 0 /\ e.type \in InboundAveragesCost /\ e.cost # 0
    BY <1>2, <1>3
  <1>6. Costs(M \cup {e}) =
           IF e.qty > 0 /\ e.type \in InboundAveragesCost /\ e.cost # 0
           THEN Costs(M) \cup {e.cost} ELSE Costs(M)
    <2>1. CASE e.qty > 0 /\ e.type \in InboundAveragesCost /\ e.cost # 0
      BY <1>5, <2>1
    <2>2. CASE ~ (e.qty > 0 /\ e.type \in InboundAveragesCost /\ e.cost # 0)
      <3>1. \A c : c \in Costs(M \cup {e}) <=> c \in Costs(M)
        BY <1>5, <2>2
      <3> HIDE DEF Costs
      <3> QED BY <3>1, <2>2
    <2> QED BY <2>1, <2>2
  <1>7. AllPaid(M \cup {e}) => AllPaid(M)
    BY DEF AllPaid, Inbound
  <1>8. Costs(M) = {} /\ AllPaid(M) => Inbound(M) = {}
    BY <1>2 DEF AllPaid, Inbound
  <1> QED BY <1>4, <1>6, <1>7, <1>8

\* A movement that has no say in the average.
LEMMA FairStays ==
    ASSUME NEW M, M \subseteq Movement, NEW e \in Movement, NEW a, Fair(M, a),
           ~ (e.qty > 0 /\ e.type \in InboundAveragesCost /\ e.cost # 0)
    PROVE  Fair(M \cup {e}, a)
  <1>1. Costs(M \cup {e}) = Costs(M) /\ (AllPaid(M \cup {e}) => AllPaid(M))
    BY CostsAdded
  <1> QED BY <1>1 DEF Fair

\* A movement that has.
LEMMA FairBlend ==
    ASSUME NEW M, M \subseteq Movement, NEW e \in Movement, NEW a \in Nat, Fair(M, a),
           e.qty > 0 /\ e.type \in InboundAveragesCost /\ e.cost # 0,
           NEW t \in Int, Backed(M, t)
    PROVE  /\ UpdatedAverage(t + e.qty, e.qty, a, e.cost) \in Nat
           /\ Fair(M \cup {e}, UpdatedAverage(t + e.qty, e.qty, a, e.cost))
  <1>1. e.qty \in Nat \ {0} /\ e.cost \in Nat
    BY DEF Movement
  <1>2. PICK x \in Nat :
           /\ x = UpdatedAverage(t + e.qty, e.qty, a, e.cost)
           /\ \A b \in Nat : a <= b /\ e.cost <= b => x <= b
           /\ \A b \in Nat : (t <= 0 \/ b <= a) /\ b <= e.cost => b <= x
    <2>1. PICK q \in Nat \ {0} : q = e.qty
      BY <1>1
    <2>2. PICK c \in Nat : c = e.cost
      BY <1>1
    <2>3. PICK x \in Nat : x = UpdatedAverage(t + q, q, a, c)
      BY Mixed
    <2>4. \A b \in Nat : a <= b /\ c <= b => x <= b
      BY <2>3, Mixed
    <2>5. \A b \in Nat : (t <= 0 \/ b <= a) /\ b <= c => b <= x
      BY <2>3, Mixed
    <2> QED BY <2>1, <2>2, <2>3, <2>4, <2>5
  <1>3. /\ Costs(M) \subseteq Nat \ {0}
        /\ Costs(M \cup {e}) = Costs(M) \cup {e.cost}
        /\ AllPaid(M \cup {e}) => AllPaid(M)
        /\ Costs(M) = {} /\ AllPaid(M) => Inbound(M) = {}
    BY CostsAdded
  <1>4. \E c \in Costs(M) \cup {e.cost} : x <= c
    <2>1. CASE Costs(M) = {}
      <3>1. a = 0
        BY <2>1 DEF Fair
      <3>2. x <= e.cost
        BY <1>1, <1>2, <3>1
      <3> QED BY <3>2
    <2>2. CASE Costs(M) # {}
      <3>1. PICK c \in Costs(M) : a <= c
        BY <2>2 DEF Fair
      <3>2. c \in Nat
        BY <1>3
      <3>3. CASE c <= e.cost
        <4>1. x <= e.cost
          BY <1>1, <1>2, <3>1, <3>2, <3>3
        <4> QED BY <4>1
      <3>4. CASE e.cost <= c
        <4>1. x <= c
          BY <1>1, <1>2, <3>1, <3>2, <3>4
        <4> QED BY <4>1
      <3> QED BY <1>1, <3>2, <3>3, <3>4
    <2> QED BY <2>1, <2>2
  <1>5. ASSUME AllPaid(M \cup {e}) PROVE \E c \in Costs(M) \cup {e.cost} : c <= x
    <2>1. CASE t <= 0
      <3>1. e.cost <= x
        BY <1>1, <1>2, <2>1
      <3> QED BY <3>1
    <2>2. CASE t > 0
      <3>1. Costs(M) # {} /\ AllPaid(M)
        BY <1>3, <1>5, <2>2 DEF Backed
      <3>2. PICK c \in Costs(M) : c <= a
        BY <3>1 DEF Fair
      <3>3. c \in Nat
        BY <1>3
      <3>4. CASE c <= e.cost
        <4>1. c <= x
          BY <1>1, <1>2, <3>2, <3>3, <3>4
        <4> QED BY <4>1
      <3>5. CASE e.cost <= c
        <4>1. e.cost <= x
          BY <1>1, <1>2, <3>2, <3>3, <3>5
        <4> QED BY <4>1
      <3> QED BY <1>1, <3>3, <3>4, <3>5
    <2> QED BY <2>1, <2>2
  <1>6. Fair(M \cup {e}, x)
    <2>1. Costs(M \cup {e}) # {}
      BY <1>3
    <2> QED BY <2>1, <1>3, <1>4, <1>5 DEF Fair
  <1> QED BY <1>2, <1>6

LEMMA EntriesFacts ==
    ASSUME NEW h \in Seq(Movement), NEW g \in Seq(Movement)
    PROVE  /\ Entries(h) \subseteq Movement
           /\ Entries(h) = {} <=> h = <<>>
           /\ \A e \in Movement : Entries(Append(h, e)) = Entries(h) \cup {e}
           /\ Entries(h \o g) = Entries(h) \cup Entries(g)
  <1>1. /\ DOMAIN h = 1 .. Len(h) /\ Len(h) \in Nat /\ \A n \in 1 .. Len(h) : h[n] \in Movement
        /\ DOMAIN g = 1 .. Len(g) /\ Len(g) \in Nat
        /\ h # <<>> => 1 \in DOMAIN h
    OBVIOUS
  <1>2. Entries(h) \subseteq Movement /\ (Entries(h) = {} <=> h = <<>>)
    <2>1. DOMAIN <<>> = {}
      OBVIOUS
    <2> QED BY <1>1, <2>1 DEF Entries
  <1>3. ASSUME NEW e \in Movement
        PROVE  Entries(Append(h, e)) = Entries(h) \cup {e}
    <2>1. PICK k \in Seq(Movement) : k = Append(h, e)
      BY AppendFacts
    <2>2. /\ DOMAIN k = DOMAIN h \cup {Len(h) + 1} /\ k[Len(h) + 1] = e
          /\ \A n \in DOMAIN h : k[n] = h[n]
      BY <2>1, AppendFacts
    <2>3. Entries(k) = Entries(h) \cup {e}
      BY <2>2 DEF Entries
    <2> QED BY <2>1, <2>3
  <1>4. Entries(h \o g) = Entries(h) \cup Entries(g)
    <2>1. PICK k \in Seq(Movement) : k = h \o g
      <3>1. h \o g \in Seq(Movement)
        OBVIOUS
      <3> QED BY <3>1
    <2>2. /\ DOMAIN k = 1 .. Len(h) + Len(g)
          /\ \A n \in 1 .. Len(h) : k[n] = h[n]
          /\ \A n \in 1 .. Len(g) : k[Len(h) + n] = g[n]
      BY <2>1
    <2>3. \A n \in DOMAIN k : n \in 1 .. Len(h) \/ \E j \in 1 .. Len(g) : n = Len(h) + j
      <3> SUFFICES ASSUME NEW n \in 1 .. Len(h) + Len(g), n \notin 1 .. Len(h)
                   PROVE  \E j \in 1 .. Len(g) : n = Len(h) + j
        BY <2>2
      <3>1. n - Len(h) \in 1 .. Len(g) /\ n = Len(h) + (n - Len(h))
        BY <1>1
      <3> QED BY <3>1
    <2>4. \A n \in 1 .. Len(h) : n \in DOMAIN k
      BY <1>1, <2>2
    <2>5. \A n \in 1 .. Len(g) : Len(h) + n \in DOMAIN k
      BY <1>1, <2>2
    <2>6. ASSUME NEW n \in DOMAIN k PROVE k[n] \in Entries(h) \cup Entries(g)
      <3>1. CASE n \in 1 .. Len(h)
        <4>1. k[n] = h[n] /\ n \in DOMAIN h
          BY <1>1, <2>2, <3>1
        <4> QED BY <4>1 DEF Entries
      <3>2. CASE \E j \in 1 .. Len(g) : n = Len(h) + j
        <4>1. PICK j \in 1 .. Len(g) : n = Len(h) + j
          BY <3>2
        <4>2. k[n] = g[j] /\ j \in DOMAIN g
          BY <1>1, <2>2, <4>1
        <4> QED BY <4>2 DEF Entries
      <3> QED BY <2>3, <3>1, <3>2
    <2>7. Entries(k) \subseteq Entries(h) \cup Entries(g)
      BY <2>6 DEF Entries
    <2>8. ASSUME NEW n \in DOMAIN h PROVE h[n] \in Entries(k)
      <3>1. k[n] = h[n] /\ n \in DOMAIN k
        BY <1>1, <2>2, <2>4
      <3> QED BY <3>1 DEF Entries
    <2>9. ASSUME NEW n \in DOMAIN g PROVE g[n] \in Entries(k)
      <3>1. k[Len(h) + n] = g[n] /\ Len(h) + n \in DOMAIN k
        BY <1>1, <2>2, <2>5
      <3> QED BY <3>1 DEF Entries
    <2>10. Entries(h) \cup Entries(g) \subseteq Entries(k)
      BY <2>8, <2>9 DEF Entries
    <2> QED BY <2>1, <2>7, <2>10
  <1> QED BY <1>2, <1>3, <1>4

LEMMA MovesAre ==
    ASSUME NEW H, NEW i, NEW m
    PROVE  m \in MovesOf(H, i) <=> \E w \in Warehouses : m \in Entries(H[<<w, i>>])
  BY DEF MovesOf

LEMMA MovesTyped ==
    ASSUME NEW H \in [Loc -> Seq(Movement)], NEW i \in Items
    PROVE  /\ MovesOf(H, i) \subseteq Movement
           /\ MovesOf(H, i) = {} => \A w \in Warehouses : H[<<w, i>>] = <<>>
           /\ (\A w \in Warehouses : H[<<w, i>>] = <<>>) => MovesOf(H, i) = {}
           /\ \A w \in Warehouses : <<w, i>> \in Loc /\ Entries(H[<<w, i>>]) \subseteq MovesOf(H, i)
  <1>1. \A w \in Warehouses : <<w, i>> \in Loc /\ H[<<w, i>>] \in Seq(Movement)
    BY DEF Loc
  <1>2. \A w \in Warehouses : /\ Entries(H[<<w, i>>]) \subseteq Movement
                              /\ Entries(H[<<w, i>>]) = {} <=> H[<<w, i>>] = <<>>
    BY <1>1, EntriesFacts
  <1> QED BY <1>1, <1>2 DEF MovesOf

\* One more movement, and the movements of two histories.
OneMore(P, Q, l, e) == \A k \in Loc : Q[k] = IF k = l THEN Append(P[k], e) ELSE P[k]
Gained(P, Q, l, e, i) ==
    MovesOf(Q, i) = IF i = l[2] THEN MovesOf(P, i) \cup {e} ELSE MovesOf(P, i)
Joined(Q, H, P) == \A k \in Loc : Q[k] = H[k] \o P[k]

LEMMA MovesExtended ==
    ASSUME NEW P \in [Loc -> Seq(Movement)], NEW Q \in [Loc -> Seq(Movement)],
           NEW l \in Loc, NEW e \in Movement, NEW i \in Items, OneMore(P, Q, l, e)
    PROVE  Gained(P, Q, l, e, i)
  <1> USE DEF Gained
  <1>1. l[1] \in Warehouses /\ l[2] \in Items /\ l = <<l[1], l[2]>>
    BY LocFacts
  <1>2. \A w \in Warehouses : <<w, i>> \in Loc /\ P[<<w, i>>] \in Seq(Movement)
    BY DEF Loc
  <1> USE DEF OneMore
  <1>3. CASE i = l[2]
    <2>1. Entries(Q[<<l[1], i>>]) = Entries(P[<<l[1], i>>]) \cup {e}
      <3>1. Q[<<l[1], i>>] = Append(P[<<l[1], i>>], e)
        BY <1>1, <1>3
      <3> QED BY <1>1, <1>2, <3>1, EntriesFacts
    <2>2. \A w \in Warehouses : w # l[1] => Q[<<w, i>>] = P[<<w, i>>]
      <3>1. \A w \in Warehouses : w # l[1] => <<w, i>> # l
        BY <1>1
      <3> QED BY <1>2, <3>1
    <2>3. ASSUME NEW m PROVE m \in MovesOf(Q, i) <=> m \in MovesOf(P, i) \/ m = e
      <3>1. \A w \in Warehouses : m \in Entries(Q[<<w, i>>]) <=>
               m \in Entries(P[<<w, i>>]) \/ (m = e /\ w = l[1])
        BY <1>1, <2>1, <2>2
      <3>2. m \in MovesOf(Q, i) <=> \E w \in Warehouses : m \in Entries(Q[<<w, i>>])
        BY MovesAre
      <3>3. m \in MovesOf(P, i) <=> \E w \in Warehouses : m \in Entries(P[<<w, i>>])
        BY MovesAre
      <3> QED BY <1>1, <3>1, <3>2, <3>3
    <2> QED BY <1>3, <2>3
  <1>4. CASE i # l[2]
    <2>1. \A w \in Warehouses : Q[<<w, i>>] = P[<<w, i>>]
      <3>1. \A w \in Warehouses : <<w, i>> # l
        BY <1>1, <1>4
      <3> QED BY <1>2, <3>1
    <2>2. \A m : m \in MovesOf(Q, i) <=> m \in MovesOf(P, i)
      BY <2>1, MovesAre
    <2> QED BY <1>4, <2>2
  <1> QED BY <1>3, <1>4

LEMMA MovesJoined ==
    ASSUME NEW H \in [Loc -> Seq(Movement)], NEW P \in [Loc -> Seq(Movement)], NEW Q,
           NEW i \in Items, Joined(Q, H, P)
    PROVE  MovesOf(Q, i) = MovesOf(H, i) \cup MovesOf(P, i)
  <1>1. \A w \in Warehouses : Entries(Q[<<w, i>>]) = Entries(H[<<w, i>>]) \cup Entries(P[<<w, i>>])
    <2> SUFFICES ASSUME NEW w \in Warehouses
                 PROVE  Entries(Q[<<w, i>>]) = Entries(H[<<w, i>>]) \cup Entries(P[<<w, i>>])
      OBVIOUS
    <2>1. <<w, i>> \in Loc
      BY DEF Loc
    <2>2. PICK h \in Seq(Movement) : h = H[<<w, i>>]
      BY <2>1
    <2>3. PICK p \in Seq(Movement) : p = P[<<w, i>>]
      BY <2>1
    <2>4. Entries(h \o p) = Entries(h) \cup Entries(p)
      BY EntriesFacts
    <2> QED BY <2>1, <2>2, <2>3, <2>4 DEF Joined
  <1>2. ASSUME NEW m
        PROVE  m \in MovesOf(Q, i) <=> m \in MovesOf(H, i) \/ m \in MovesOf(P, i)
    <2>1. \A w \in Warehouses : m \in Entries(Q[<<w, i>>]) <=>
             m \in Entries(H[<<w, i>>]) \/ m \in Entries(P[<<w, i>>])
      BY <1>1
    <2>2. m \in MovesOf(Q, i) <=> \E w \in Warehouses : m \in Entries(Q[<<w, i>>])
      BY MovesAre
    <2>3. m \in MovesOf(H, i) <=> \E w \in Warehouses : m \in Entries(H[<<w, i>>])
      BY MovesAre
    <2>4. m \in MovesOf(P, i) <=> \E w \in Warehouses : m \in Entries(P[<<w, i>>])
      BY MovesAre
    <2> QED BY <2>1, <2>2, <2>3, <2>4
  <1> QED BY <1>2

\* Stock over all warehouses is above zero only where some location's is.
Views(s, i) == [w \in Warehouses |-> View(s, <<w, i>>)]

LEMMA TotalIsSum ==
    ASSUME NEW s, NEW i
    PROVE  TotalStock(s, i) = SumOf(Views(s, i), Warehouses)
  <1> DEFINE S == Warehouses
             f == Views(s, i)
             Fold(g) == g = [x \in SUBSET S |->
                               IF x = {} THEN 0
                               ELSE View(s, <<Pick(x), i>>) + g[x \ {Pick(x)}]]
             h == CHOOSE g : Fold(g)
  <1> HIDE DEF View
  <1>1. TotalStock(s, i) = h[S]
    BY DEF TotalStock, MapThenSumSet, MapThenFoldSet, Pick
  <1>2. ASSUME NEW x \in SUBSET S, x # {} PROVE f[Pick(x)] = View(s, <<Pick(x), i>>)
    <2>1. Pick(x) \in S
      BY <1>2 DEF Pick
    <2> QED BY <2>1 DEF Views
  <1>3. \A g : Fold(g) <=> IsSum(f, S, g)
    BY <1>2 DEF IsSum
  <1>4. IsSum(f, S, PartialSums(f, S))
    BY StockConstants, SumExists
  <1>5. IsSum(f, S, h)
    BY <1>3, <1>4
  <1>6. IsFiniteSet(S)
    BY StockConstants
  <1> HIDE DEF f, h, S
  <1>7. h[S] = PartialSums(f, S)[S]
    BY <1>4, <1>5, <1>6, SumIsUnique
  <1>8. SumOf(f, S) = PartialSums(f, S)[S]
    BY SumIsFold
  <1> QED BY <1>1, <1>7, <1>8 DEF f, S

LEMMA TotalAboveZero ==
    ASSUME TypeOK, NEW s \in Sessions, NEW i \in Items
    PROVE  /\ TotalStock(s, i) \in Int
           /\ TotalStock(s, i) > 0 => \E w \in Warehouses : View(s, <<w, i>>) > 0
  <1> DEFINE none == [w \in Warehouses |-> 0]
  <1>1. IsFiniteSet(Warehouses)
    BY StockConstants
  <1>2. \A w \in Warehouses : Views(s, i)[w] = View(s, <<w, i>>) /\ Views(s, i)[w] \in Int
    <2> SUFFICES ASSUME NEW w \in Warehouses
                 PROVE  Views(s, i)[w] = View(s, <<w, i>>) /\ Views(s, i)[w] \in Int
      OBVIOUS
    <2>1. <<w, i>> \in Loc
      BY DEF Loc
    <2>2. View(s, <<w, i>>) \in Int
      BY <2>1, TypedView
    <2> QED BY <2>2 DEF Views
  <1>3. PICK f : f = Views(s, i)
    OBVIOUS
  <1>4. SumOf(f, Warehouses) \in Int
    BY <1>1, <1>2, <1>3, SumType
  <1>5. ASSUME ~ \E w \in Warehouses : View(s, <<w, i>>) > 0
        PROVE  SumOf(f, Warehouses) <= 0
    <2>1. \A w \in Warehouses : f[w] \in Int /\ none[w] \in Int /\ f[w] <= none[w]
      BY <1>2, <1>3, <1>5
    <2>2. \A w \in Warehouses : none[w] = 0
      OBVIOUS
    <2> HIDE DEF none
    <2>3. SumOf(f, Warehouses) <= SumOf(none, Warehouses)
      BY <1>1, <2>1, SumMonotonic
    <2>4. SumOf(none, Warehouses) = 0
      BY <1>1, <2>2, SumZero
    <2> QED BY <2>3, <2>4
  <1>6. TotalStock(s, i) = SumOf(f, Warehouses)
    BY <1>3, TotalIsSum
  <1> QED BY <1>4, <1>5, <1>6

\* The steps as they look to stock and its cost.
LEMMA CostSteps ==
    ASSUME [Next]_vars
    PROVE  \/ UNCHANGED <<level, hist, avg, pending, newAvg>>
           \/ \E s \in Sessions : \/ RecordMovement(s)
                                  \/ End(s) /\ UNCHANGED <<level, hist, avg>>
                                  \/ Publish(s)
  <1> DEFINE Same == UNCHANGED <<level, hist, avg, pending, newAvg>>
             Goal == \/ Same
                     \/ \E s \in Sessions : \/ RecordMovement(s)
                                            \/ End(s) /\ UNCHANGED <<level, hist, avg>>
                                            \/ Publish(s)
  <1>1. UNCHANGED ledgerVars => Same
    BY DEF ledgerVars
  <1>2. ASSUME NEW s, NEW op, NEW d, NEW lines, NEW ahead, Begin(s, op, d, lines, ahead)
        PROVE  Same
    BY <1>2 DEF Begin
  <1>3. CASE UNCHANGED vars
    <2>1. UNCHANGED ledgerVars
      BY <1>3 DEF vars, ledgerVars, docVars
    <2> QED BY <1>1, <2>1
  <1>4. CASE CreateTransfer \/ RequestAdjustment \/ RejectAdjustment \/ StartCount
    <2>1. UNCHANGED ledgerVars
      BY <1>4 DEF CreateTransfer, RequestAdjustment, RejectAdjustment, StartCount
    <2> QED BY <1>1, <2>1
  <1>5. CASE (AssignLocation \/ SetPolicy) /\ UNCHANGED docVars
    <2>1. Same
      BY <1>5 DEF AssignLocation, SetPolicy
    <2> QED BY <2>1
  <1>6. ASSUME NEW s \in Sessions, LedgerStep(s) PROVE Goal
    <2>1. CASE StartPosting(s) \/ StartOpening(s)
      <3>1. \E op, d, lines, ahead : Begin(s, op, d, lines, ahead)
        BY <2>1 DEF StartPosting, StartOpening
      <3> QED BY <1>2, <3>1
    <2>2. CASE RecordMovement(s)
      BY <2>2
    <2>3. CASE SkipImportRow(s)
      <3>1. Same
        BY <2>3 DEF SkipImportRow
      <3> QED BY <3>1
    <2>4. CASE Commit(s)
      <3>1. Publish(s)
        BY <2>4 DEF Commit
      <3> QED BY <3>1
    <2> QED BY <1>6, <2>1, <2>2, <2>3, <2>4 DEF LedgerStep
  <1>7. ASSUME NEW s \in Sessions, AbortStep(s) PROVE Goal
    <2>1. Rollback(s)
      BY <1>7 DEF AbortStep, Refuse, DeadlockVictim, Crash
    <2>2. End(s) /\ UNCHANGED <<level, hist, avg>>
      BY <2>1 DEF Rollback
    <2> QED BY <2>2
  <1>8. ASSUME NEW s \in Sessions,
               \/ DispatchTransfer(s) \/ ReceiveTransfer(s) \/ CancelTransfer(s)
               \/ AdjustNow(s) \/ ApproveAdjustment(s) \/ ApproveCount(s)
        PROVE  Goal
    <2>1. \E op, d, lines, ahead : Begin(s, op, d, lines, ahead)
      BY <1>8 DEF DispatchTransfer, ReceiveTransfer, CancelTransfer,
                  AdjustNow, ApproveAdjustment, ApproveCount
    <2> QED BY <1>2, <2>1
  <1>9. ASSUME NEW s \in Sessions, CommitTransfer(s) \/ CommitAdjustment(s) \/ CommitCount(s)
        PROVE  Goal
    <2>1. Publish(s)
      BY <1>9 DEF CommitTransfer, CommitAdjustment, CommitCount
    <2> QED BY <2>1
  <1>10. ASSUME NEW s \in Sessions,
                SubmitCounts(s) \/ SaveCounted(s) \/ FinishForm(s) \/ LoseForm(s)
         PROVE  Goal
    <2>1. UNCHANGED ledgerVars
      BY <1>10 DEF SubmitCounts, SaveCounted, FinishForm, LoseForm
    <2> QED BY <1>1, <2>1
  <1> HIDE DEF Goal
  <1>11. Goal
    BY <1>3, <1>4, <1>5, <1>6, <1>7, <1>8, <1>9, <1>10 DEF Next, Goal, Same
  <1> QED BY <1>11 DEF Goal, Same

LEMMA MoveKeepsFair ==
    ASSUME LedgerInv, LedgerInv', FairAverages, NEW s \in Sessions, RecordMovement(s)
    PROVE  FairAverages'
  <1>1. TypeOK /\ TypeOK'
    BY DEF LedgerInv
  <1>2. PICK m \in Line : m = Current(s)
    BY LineFacts
  <1>3. PICK e \in Movement : /\ e = Entry(s, m)
                              /\ e.type = m.type /\ e.qty = Delta(s, m) /\ e.cost = m.cost
                              /\ e.balance = View(s, Place(m)) + e.qty
    BY <1>1, <1>2, TypedEntry DEF Entry
  <1>4. PICK q \in Loc : q = Place(m) /\ q[2] = m.item /\ m.item \in Items
    BY <1>2, LocFacts
  <1>5. /\ level' = level /\ hist' = hist /\ avg' = avg
        /\ newAvg' = WrittenAverage(s, m)
        /\ \A r \in Sessions, l \in Loc : pending'[r][l] =
              IF r = s /\ l = q THEN Append(pending[s][l], e) ELSE pending[r][l]
    <2>1. level' = level /\ hist' = hist /\ avg' = avg /\ newAvg' = WrittenAverage(s, m)
      BY <1>2 DEF RecordMovement
    <2>2. \A r \in Sessions, l \in Loc : pending'[r][l] =
             IF r = s /\ l = Place(Current(s))
             THEN Append(pending[s][l], Entry(s, Current(s))) ELSE pending[r][l]
      BY LineFacts
    <2> QED BY <1>2, <1>3, <1>4, <2>1, <2>2
  <1>6. /\ \A r \in Sessions : pending[r] \in [Loc -> Seq(Movement)]
        /\ \A r \in Sessions : pending'[r] \in [Loc -> Seq(Movement)]
        /\ hist \in [Loc -> Seq(Movement)]
    BY <1>1 DEF TypeOK
  <1>7. \A r \in Sessions : r # s => pending'[r] = pending[r]
    BY <1>5, <1>6
  <1>8. \A i \in Items : MovesOf(pending'[s], i) =
           IF i = m.item THEN MovesOf(pending[s], i) \cup {e} ELSE MovesOf(pending[s], i)
    <2>1. PICK P \in [Loc -> Seq(Movement)] : P = pending[s]
      BY <1>6
    <2>2. PICK Q \in [Loc -> Seq(Movement)] : Q = pending'[s]
      BY <1>6
    <2>3. OneMore(P, Q, q, e)
      BY <1>5, <2>1, <2>2 DEF OneMore
    <2>4. ASSUME NEW i \in Items
          PROVE  Gained(P, Q, q, e, i)
      BY <2>3, MovesExtended
    <2> QED BY <1>4, <2>1, <2>2, <2>4 DEF Gained
  <1> DEFINE counts == e.qty > 0 /\ e.type \in InboundAveragesCost /\ e.cost # 0
  <1>9. PICK M : M = MovesOf(hist, m.item) \cup MovesOf(pending[s], m.item)
    OBVIOUS
  <1>10. M \subseteq Movement
    BY <1>4, <1>6, <1>9, MovesTyped
  <1>11. PICK a \in Nat : a = AverageCost(s, m.item)
    BY <1>4 DEF FairAverages, AverageCost
  <1>12. PICK t \in Int : t = TotalStock(s, m.item)
    BY <1>1, <1>4, TotalAboveZero
  <1>13. Fair(M, a) /\ Backed(M, t)
    <2>1. Fair(M, a)
      BY <1>4, <1>9, <1>11 DEF FairAverages
    <2>2. ASSUME t > 0 PROVE Inbound(M) # {}
      <3>1. PICK w \in Warehouses : View(s, <<w, m.item>>) > 0
        BY <1>1, <1>4, <1>12, <2>2, TotalAboveZero
      <3>2. /\ <<w, m.item>> \in Loc
            /\ Entries(hist[<<w, m.item>>]) \subseteq M
            /\ Entries(pending[s][<<w, m.item>>]) \subseteq M
        BY <1>4, <1>6, <1>9, MovesTyped
      <3>3. Inbound(Entries(hist[<<w, m.item>>]) \cup Entries(pending[s][<<w, m.item>>])) # {}
        BY <3>1, <3>2 DEF FairAverages, Backed
      <3> QED BY <3>2, <3>3 DEF Inbound
    <2> QED BY <2>1, <2>2 DEF Backed
  <1>14. ASSUME counts
         PROVE  /\ newAvg'[s][m.item] \in Nat /\ Fair(M \cup {e}, newAvg'[s][m.item])
                /\ \A r \in Sessions, i \in Items :
                      r # s \/ i # m.item => newAvg'[r][i] = newAvg[r][i]
                /\ newAvg' \in [Sessions -> [Items -> Nat \cup {-1}]]
    <2>1. PICK x \in Nat : x = UpdatedAverage(t + e.qty, e.qty, a, e.cost) /\ Fair(M \cup {e}, x)
      BY <1>10, <1>13, <1>14, FairBlend
    <2>2. newAvg' = [newAvg EXCEPT ![s][m.item] = x]
      BY <1>3, <1>5, <1>11, <1>12, <1>14, <2>1 DEF WrittenAverage
    <2>3. newAvg \in [Sessions -> [Items -> Nat \cup {-1}]]
      BY DEF FairAverages
    <2> QED BY <1>4, <2>1, <2>2, <2>3
  <1>15. ASSUME ~counts
         PROVE  newAvg' = newAvg /\ Fair(M \cup {e}, a)
    <2>1. newAvg' = newAvg
      BY <1>3, <1>5, <1>15 DEF WrittenAverage
    <2>2. Fair(M \cup {e}, a)
      BY <1>10, <1>13, <1>15, FairStays
    <2> QED BY <2>1, <2>2
  <1> HIDE DEF counts
  <1>16. newAvg' \in [Sessions -> [Items -> Nat \cup {-1}]]
    BY <1>14, <1>15 DEF FairAverages
  <1>17. ASSUME NEW r \in Sessions, NEW i \in Items
         PROVE  /\ Fair(MovesOf(hist, i) \cup MovesOf(pending'[r], i), AverageCost(r, i)')
                /\ MovesOf(pending'[r], i) = {} => newAvg'[r][i] = -1
    <2>1. CASE r = s /\ i = m.item
      <3>1. MovesOf(hist, i) \cup MovesOf(pending'[r], i) = M \cup {e}
        BY <1>8, <1>9, <2>1
      <3>2. MovesOf(pending'[r], i) # {}
        BY <1>8, <2>1
      <3>3. CASE counts
        <4>1. AverageCost(r, i)' = newAvg'[s][m.item]
          BY <1>14, <2>1, <3>3 DEF AverageCost
        <4> QED BY <1>14, <3>1, <3>2, <3>3, <4>1
      <3>4. CASE ~counts
        <4>1. AverageCost(r, i)' = a
          BY <1>5, <1>11, <1>15, <2>1, <3>4 DEF AverageCost
        <4> QED BY <1>15, <3>1, <3>2, <3>4, <4>1
      <3> QED BY <3>3, <3>4
    <2>2. CASE ~ (r = s /\ i = m.item)
      <3>1. newAvg'[r][i] = newAvg[r][i] /\ MovesOf(pending'[r], i) = MovesOf(pending[r], i)
        BY <1>7, <1>8, <1>14, <1>15, <2>2
      <3>2. AverageCost(r, i)' = AverageCost(r, i)
        BY <1>5, <3>1 DEF AverageCost
      <3> QED BY <3>1, <3>2 DEF FairAverages
    <2> QED BY <2>1, <2>2
  <1>18. ASSUME NEW r \in Sessions, NEW l \in Loc
         PROVE  Backed(Entries(hist[l]) \cup Entries(pending'[r][l]), View(r, l)')
    <2>1. CASE r = s /\ l = q
      <3>1. PICK p \in Seq(Movement) : p = pending[s][q]
        BY <1>6
      <3>2. pending'[r][l] = Append(p, e)
        BY <1>5, <2>1, <3>1
      <3>3. Entries(pending'[r][l]) = Entries(p) \cup {e}
        BY <3>2, EntriesFacts
      <3>4. View(r, l)' = e.balance
        BY <3>2, AppendFacts DEF View
      <3>5. e.balance = View(s, q) + e.qty /\ View(s, q) \in Int /\ e.qty \in Int
        BY <1>1, <1>3, <1>4, TypedView DEF Movement
      <3>6. Backed(Entries(hist[q]) \cup Entries(p), View(s, q))
        BY <3>1 DEF FairAverages
      <3>7. CASE e.qty > 0
        <4>1. e \in Inbound(Entries(hist[l]) \cup Entries(pending'[r][l]))
          BY <3>3, <3>7 DEF Inbound
        <4> QED BY <4>1 DEF Backed
      <3>8. CASE ~ e.qty > 0
        <4>1. e.balance > 0 => View(s, q) > 0
          BY <3>5, <3>8
        <4>2. e.balance > 0 => Inbound(Entries(hist[q]) \cup Entries(p)) # {}
          BY <3>6, <4>1 DEF Backed
        <4>3. Inbound(Entries(hist[q]) \cup Entries(p))
                 \subseteq Inbound(Entries(hist[l]) \cup Entries(pending'[r][l]))
          BY <2>1, <3>3 DEF Inbound
        <4> QED BY <3>4, <4>2, <4>3 DEF Backed
      <3> QED BY <3>7, <3>8
    <2>2. CASE ~ (r = s /\ l = q)
      <3>1. pending'[r][l] = pending[r][l]
        BY <1>5, <2>2
      <3>2. View(r, l)' = View(r, l)
        BY <1>5, <3>1 DEF View
      <3> QED BY <3>1, <3>2 DEF FairAverages
    <2> QED BY <2>1, <2>2
  <1> QED BY <1>5, <1>16, <1>17, <1>18 DEF FairAverages

LEMMA EndKeepsFair ==
    ASSUME LedgerInv, LedgerInv', FairAverages, NEW s \in Sessions, End(s),
           UNCHANGED <<level, hist, avg>>
    PROVE  FairAverages'
  <1>1. TypeOK /\ TypeOK'
    BY DEF LedgerInv
  <1>2. \A r \in Sessions, l \in Loc :
           pending'[r][l] = IF r = s THEN <<>> ELSE pending[r][l]
    BY EndFacts
  <1>3. /\ hist \in [Loc -> Seq(Movement)]
        /\ \A r \in Sessions : /\ pending[r] \in [Loc -> Seq(Movement)]
                               /\ pending'[r] \in [Loc -> Seq(Movement)]
    BY <1>1 DEF TypeOK
  <1>4. \A r \in Sessions : r # s => pending'[r] = pending[r]
    BY <1>2, <1>3
  <1>5. /\ newAvg' \in [Sessions -> [Items -> Nat \cup {-1}]]
        /\ \A r \in Sessions, i \in Items :
              newAvg'[r][i] = IF r = s THEN -1 ELSE newAvg[r][i]
    <2>1. newAvg \in [Sessions -> [Items -> Nat \cup {-1}]]
      BY DEF FairAverages
    <2>2. newAvg' = [newAvg EXCEPT ![s] = Unwritten]
      BY DEF End
    <2> QED BY <2>1, <2>2 DEF Unwritten
  <1>6. ASSUME NEW i \in Items PROVE MovesOf(pending'[s], i) = {}
    <2>1. \A w \in Warehouses : pending'[s][<<w, i>>] = <<>>
      BY <1>2 DEF Loc
    <2> QED BY <1>3, <2>1, MovesTyped
  <1>7. ASSUME NEW r \in Sessions, NEW i \in Items
        PROVE  /\ Fair(MovesOf(hist, i) \cup MovesOf(pending'[r], i), AverageCost(r, i)')
               /\ MovesOf(pending'[r], i) = {} => newAvg'[r][i] = -1
    <2>1. CASE r = s
      <3>1. MovesOf(hist, i) \cup MovesOf(pending'[r], i) = MovesOf(hist, i)
        BY <1>6, <2>1
      <3>2. AverageCost(r, i)' = avg[i]
        BY <1>5, <2>1 DEF AverageCost
      <3>3. Fair(MovesOf(hist, i), avg[i])
        BY DEF FairAverages
      <3> QED BY <1>5, <2>1, <3>1, <3>2, <3>3
    <2>2. CASE r # s
      <3>1. pending'[r] = pending[r] /\ newAvg'[r][i] = newAvg[r][i]
        BY <1>4, <1>5, <2>2
      <3>2. AverageCost(r, i)' = AverageCost(r, i)
        BY <3>1 DEF AverageCost
      <3> QED BY <3>1, <3>2 DEF FairAverages
    <2> QED BY <2>1, <2>2
  <1>8. ASSUME NEW r \in Sessions, NEW l \in Loc
        PROVE  Backed(Entries(hist[l]) \cup Entries(pending'[r][l]), View(r, l)')
    <2>1. CASE r = s
      <3>1. pending'[r][l] = <<>>
        BY <1>2, <2>1
      <3>2. View(r, l)' = level[l]
        BY <3>1 DEF View
      <3>3. Entries(pending'[r][l]) = {}
        BY <1>3, <3>1, EntriesFacts
      <3>4. Backed(Entries(hist[l]), level[l])
        BY DEF FairAverages
      <3> QED BY <3>2, <3>3, <3>4 DEF Backed
    <2>2. CASE r # s
      <3>1. pending'[r][l] = pending[r][l]
        BY <1>2, <2>2
      <3>2. View(r, l)' = View(r, l)
        BY <3>1 DEF View
      <3> QED BY <3>1, <3>2 DEF FairAverages
    <2> QED BY <2>1, <2>2
  <1> QED BY <1>5, <1>7, <1>8 DEF FairAverages

\* Two requests never move the same item: they would hold the same product.
LEMMA ItemsApart ==
    ASSUME LedgerInv, NEW s \in Sessions, NEW r \in Sessions, s # r, NEW i \in Items,
           MovesOf(pending[s], i) # {}
    PROVE  MovesOf(pending[r], i) = {}
  <1>1. \A q \in Sessions : pending[q] \in [Loc -> Seq(Movement)]
    BY DEF LedgerInv, TypeOK
  <1>2. PICK w \in Warehouses : pending[s][<<w, i>>] # <<>>
    BY <1>1, MovesTyped
  <1>3. \A v \in Warehouses : <<v, i>> \in Loc /\ <<v, i>>[2] = i
    BY DEF Loc
  <1>4. ProductOf[i] \in txn[s].held /\ txn[s].held \cap txn[r].held = {}
    BY <1>2, <1>3 DEF LedgerInv, LocksExclude
  <1>5. \A v \in Warehouses : pending[r][<<v, i>>] = <<>>
    BY <1>3, <1>4 DEF LedgerInv, LocksExclude
  <1> QED BY <1>1, <1>5, MovesTyped

LEMMA PublishKeepsFair ==
    ASSUME LedgerInv, LedgerInv', FairAverages, NEW s \in Sessions, Publish(s)
    PROVE  FairAverages'
  <1>1. TypeOK /\ TypeOK' /\ End(s)
    BY DEF LedgerInv, Publish
  <1>2. /\ \A l \in Loc : level'[l] = View(s, l) /\ hist'[l] = hist[l] \o pending[s][l]
        /\ avg' = [i \in Items |-> AverageCost(s, i)]
    BY DEF Publish
  <1>3. \A r \in Sessions, l \in Loc :
           pending'[r][l] = IF r = s THEN <<>> ELSE pending[r][l]
    BY <1>1, EndFacts
  <1>4. /\ hist \in [Loc -> Seq(Movement)] /\ hist' \in [Loc -> Seq(Movement)]
        /\ \A r \in Sessions : /\ pending[r] \in [Loc -> Seq(Movement)]
                               /\ pending'[r] \in [Loc -> Seq(Movement)]
    BY <1>1 DEF TypeOK
  <1>5. \A r \in Sessions : r # s => pending'[r] = pending[r]
    BY <1>3, <1>4
  <1>6. /\ newAvg' \in [Sessions -> [Items -> Nat \cup {-1}]]
        /\ \A r \in Sessions, i \in Items :
              newAvg'[r][i] = IF r = s THEN -1 ELSE newAvg[r][i]
    <2>1. newAvg \in [Sessions -> [Items -> Nat \cup {-1}]]
      BY DEF FairAverages
    <2>2. newAvg' = [newAvg EXCEPT ![s] = Unwritten]
      BY <1>1 DEF End
    <2> QED BY <2>1, <2>2 DEF Unwritten
  <1>7. avg' \in [Items -> Nat]
    BY <1>2 DEF AverageCost, FairAverages
  <1>8. ASSUME NEW i \in Items PROVE MovesOf(pending'[s], i) = {}
    <2>1. \A w \in Warehouses : pending'[s][<<w, i>>] = <<>>
      BY <1>3 DEF Loc
    <2> QED BY <1>4, <2>1, MovesTyped
  <1>9. ASSUME NEW i \in Items
        PROVE  MovesOf(hist', i) = MovesOf(hist, i) \cup MovesOf(pending[s], i)
    <2>1. PICK H \in [Loc -> Seq(Movement)] : H = hist
      BY <1>4
    <2>2. PICK P \in [Loc -> Seq(Movement)] : P = pending[s]
      BY <1>4
    <2>3. PICK Q : Q = hist'
      OBVIOUS
    <2>4. Joined(Q, H, P)
      BY <1>2, <2>1, <2>2, <2>3 DEF Joined
    <2>5. MovesOf(Q, i) = MovesOf(H, i) \cup MovesOf(P, i)
      BY <2>4, MovesJoined
    <2> QED BY <2>1, <2>2, <2>3, <2>5
  <1>10. ASSUME NEW i \in Items PROVE Fair(MovesOf(hist', i), avg'[i])
    BY <1>2, <1>9 DEF FairAverages
  <1>11. ASSUME NEW r \in Sessions, NEW i \in Items
         PROVE  /\ Fair(MovesOf(hist', i) \cup MovesOf(pending'[r], i), AverageCost(r, i)')
                /\ MovesOf(pending'[r], i) = {} => newAvg'[r][i] = -1
    <2>1. CASE r = s
      <3>1. MovesOf(hist', i) \cup MovesOf(pending'[r], i) = MovesOf(hist', i)
        BY <1>8, <2>1
      <3>2. AverageCost(r, i)' = avg'[i]
        BY <1>6, <2>1 DEF AverageCost
      <3> QED BY <1>6, <1>10, <2>1, <3>1, <3>2
    <2>2. CASE r # s
      <3>1. pending'[r] = pending[r] /\ newAvg'[r][i] = newAvg[r][i]
        BY <1>5, <1>6, <2>2
      <3>2. MovesOf(pending'[r], i) = {} => newAvg'[r][i] = -1
        BY <3>1 DEF FairAverages
      <3>3. CASE MovesOf(pending[s], i) = {}
        <4>1. MovesOf(hist', i) = MovesOf(hist, i)
          BY <1>9, <3>3
        <4>2. avg'[i] = avg[i]
          BY <1>2, <3>3 DEF AverageCost, FairAverages
        <4>3. AverageCost(r, i)' = AverageCost(r, i)
          BY <3>1, <4>2 DEF AverageCost
        <4>4. Fair(MovesOf(hist, i) \cup MovesOf(pending[r], i), AverageCost(r, i))
          BY DEF FairAverages
        <4> QED BY <3>1, <3>2, <4>1, <4>3, <4>4
      <3>4. CASE MovesOf(pending[s], i) # {}
        <4>1. MovesOf(pending'[r], i) = {}
          BY <2>2, <3>1, <3>4, ItemsApart
        <4>2. AverageCost(r, i)' = avg'[i]
          BY <3>2, <4>1 DEF AverageCost
        <4>3. MovesOf(hist', i) \cup MovesOf(pending'[r], i) = MovesOf(hist', i)
          BY <4>1
        <4> QED BY <1>10, <3>2, <4>2, <4>3
      <3> QED BY <3>3, <3>4
    <2> QED BY <2>1, <2>2
  <1>12. ASSUME NEW l \in Loc
         PROVE  /\ Entries(hist'[l]) = Entries(hist[l]) \cup Entries(pending[s][l])
                /\ Backed(Entries(hist'[l]), level'[l])
    <2>1. PICK h \in Seq(Movement) : h = hist[l]
      BY <1>4
    <2>2. PICK p \in Seq(Movement) : p = pending[s][l]
      BY <1>4
    <2>3. Entries(h \o p) = Entries(h) \cup Entries(p)
      BY EntriesFacts
    <2>4. Entries(hist'[l]) = Entries(hist[l]) \cup Entries(pending[s][l])
      BY <1>2, <2>1, <2>2, <2>3
    <2> QED BY <1>2, <2>4 DEF FairAverages
  <1>13. ASSUME NEW r \in Sessions, NEW l \in Loc
         PROVE  Backed(Entries(hist'[l]) \cup Entries(pending'[r][l]), View(r, l)')
    <2>1. CASE pending'[r][l] = <<>>
      <3>1. View(r, l)' = level'[l]
        BY <2>1 DEF View
      <3>2. Entries(pending'[r][l]) = {}
        BY <1>4, <2>1, EntriesFacts
      <3>3. Entries(hist'[l]) \cup Entries(pending'[r][l]) = Entries(hist'[l])
        BY <3>2
      <3> QED BY <1>12, <3>1, <3>3
    <2>2. CASE pending'[r][l] # <<>>
      <3>1. r # s /\ pending'[r][l] = pending[r][l]
        BY <1>3, <2>2
      <3>2. pending[s][l] = <<>>
        BY <2>2, <3>1, PendingDisjoint
      <3>3. level'[l] = level[l] /\ Entries(pending[s][l]) = {}
        BY <1>2, <1>4, <3>2, EntriesFacts DEF View
      <3>4. Entries(hist'[l]) = Entries(hist[l])
        BY <1>12, <3>3
      <3>5. View(r, l)' = View(r, l)
        BY <3>1, <3>3 DEF View
      <3>6. Backed(Entries(hist[l]) \cup Entries(pending[r][l]), View(r, l))
        BY DEF FairAverages
      <3> QED BY <3>1, <3>4, <3>5, <3>6
    <2> QED BY <2>1, <2>2
  <1> QED BY <1>6, <1>7, <1>10, <1>11, <1>12, <1>13 DEF FairAverages

LEMMA FiniteCosts ==
    ASSUME NEW H \in [Loc -> Seq(Movement)], NEW i \in Items
    PROVE  IsFiniteSet(Costs(MovesOf(H, i)))
  <1>1. ASSUME NEW h \in Seq(Movement) PROVE IsFiniteSet(Entries(h))
    <2>1. PICK n \in Nat : DOMAIN h = 1 .. n /\ h \in [1 .. n -> Movement]
      <3>1. Len(h) \in Nat /\ DOMAIN h = 1 .. Len(h) /\ h \in [1 .. Len(h) -> Movement]
        OBVIOUS
      <3> QED BY <3>1
    <2>2. h \in Surjection(1 .. n, Entries(h))
      BY <2>1 DEF Surjection, Entries
    <2> QED BY <2>2, FS_Interval, FS_Surjection
  <1>2. IsFiniteSet(MovesOf(H, i))
    <2> DEFINE f == [w \in Warehouses |-> Entries(H[<<w, i>>])]
               T == {Entries(H[<<w, i>>]) : w \in Warehouses}
    <2>1. f \in Surjection(Warehouses, T)
      BY DEF Surjection
    <2>2. \A x \in T : IsFiniteSet(x)
      <3>1. \A w \in Warehouses : H[<<w, i>>] \in Seq(Movement)
        BY DEF Loc
      <3> QED BY <1>1, <3>1
    <2>3. IsFiniteSet(Warehouses)
      BY StockConstants
    <2>4. MovesOf(H, i) = UNION T
      BY DEF MovesOf
    <2> HIDE DEF f, T
    <2>5. IsFiniteSet(T)
      BY <2>1, <2>3, FS_Surjection
    <2> QED BY <2>2, <2>4, <2>5, FS_UNION
  <1> DEFINE M == MovesOf(H, i)
             P == {x \in Inbound(M) : x.type \in InboundAveragesCost}
             c == [m \in P |-> m.cost]
             C == {m.cost : m \in P}
  <1>3. IsFiniteSet(P)
    <2>1. P \subseteq MovesOf(H, i)
      BY DEF Inbound
    <2> QED BY <1>2, <2>1, FS_Subset
  <1>4. c \in Surjection(P, C)
    BY DEF Surjection
  <1>5. Costs(M) \subseteq C
    BY DEF Costs
  <1> HIDE DEF P, c, C
  <1>6. IsFiniteSet(C)
    BY <1>3, <1>4, FS_Surjection
  <1> QED BY <1>5, <1>6, FS_Subset

\* _update_average_cost reads the stock of all warehouses and the old average while
\* it holds the product: whatever requests interleave and whichever of them roll
\* back, the moving average stays between the unit costs paid.
THEOREM AverageStaysWithinCosts == DocSpec => []AverageWithinCosts
  <1>1. Init => DocsInv /\ FairAverages
    <2> SUFFICES ASSUME Init PROVE FairAverages
      BY InitDocsInv
    <2>1. /\ avg = [i \in Items |-> 0]
          /\ newAvg = [s \in Sessions |-> Unwritten]
          /\ pending = [s \in Sessions |-> NothingPending]
          /\ hist = [l \in Loc |-> LegacyHistory(l)]
          /\ level = [l \in Loc |-> IF l[2] \in MeterParents THEN Legacy[l] ELSE 0]
      BY DEF Init, InitLedger
    <2>2. TypeOK
      BY InitDocsInv DEF DocsInv, OversellInv, LedgerInv
    <2>3. /\ hist \in [Loc -> Seq(Movement)]
          /\ \A s \in Sessions : pending[s] \in [Loc -> Seq(Movement)]
      BY <2>2 DEF TypeOK
    <2>4. /\ avg \in [Items -> Nat] /\ newAvg \in [Sessions -> [Items -> Nat \cup {-1}]]
          /\ \A s \in Sessions, i \in Items : newAvg[s][i] = -1 /\ AverageCost(s, i) = 0
          /\ \A i \in Items : avg[i] = 0
      BY <2>1 DEF Unwritten, AverageCost
    <2>5. ASSUME NEW l \in Loc
          PROVE  /\ \A m \in Entries(hist[l]) : m.cost = 0
                 /\ Backed(Entries(hist[l]), level[l])
                 /\ \A s \in Sessions : pending[s][l] = <<>> /\ View(s, l) = level[l]
      <3>1. hist[l] = LegacyHistory(l)
        BY <2>1
      <3>2. CASE l[2] \in MeterParents /\ Legacy[l] # 0
        <4>1. PICK e : e = [type |-> "opening", qty |-> Legacy[l], cost |-> 0,
                            balance |-> Legacy[l], ref |-> Direct]
          OBVIOUS
        <4>2. hist[l] = <<e>> /\ level[l] = Legacy[l] /\ e.cost = 0 /\ e.qty = Legacy[l]
          BY <2>1, <3>1, <3>2, <4>1 DEF LegacyHistory
        <4>3. Entries(hist[l]) = {e}
          <5>1. DOMAIN <<e>> = {1} /\ <<e>>[1] = e
            OBVIOUS
          <5> QED BY <4>2, <5>1 DEF Entries
        <4>4. Backed({e}, e.qty)
          BY DEF Backed, Inbound
        <4> QED BY <2>1, <4>2, <4>3, <4>4 DEF NothingPending, View
      <3>3. CASE ~ (l[2] \in MeterParents /\ Legacy[l] # 0)
        <4>1. hist[l] = <<>> /\ level[l] = 0
          BY <2>1, <3>1, <3>3 DEF LegacyHistory
        <4>2. Entries(hist[l]) = {}
          BY <2>3, <4>1, EntriesFacts
        <4> QED BY <2>1, <4>1, <4>2 DEF NothingPending, View, Backed
      <3> QED BY <3>2, <3>3
    <2>6. ASSUME NEW s \in Sessions, NEW i \in Items PROVE MovesOf(pending[s], i) = {}
      <3>1. \A w \in Warehouses : pending[s][<<w, i>>] = <<>>
        BY <2>5 DEF Loc
      <3> QED BY <2>3, <3>1, MovesTyped
    <2>7. ASSUME NEW i \in Items PROVE Fair(MovesOf(hist, i), 0)
      <3>1. ASSUME NEW m \in MovesOf(hist, i) PROVE m.cost = 0
        <4>1. PICK w \in Warehouses : m \in Entries(hist[<<w, i>>])
          BY MovesAre
        <4> QED BY <2>5, <4>1 DEF Loc
      <3>2. Costs(MovesOf(hist, i)) = {}
        BY <3>1 DEF Costs, Inbound
      <3> QED BY <3>2 DEF Fair
    <2>8. ASSUME NEW s \in Sessions, NEW i \in Items
          PROVE  Fair(MovesOf(hist, i) \cup MovesOf(pending[s], i), AverageCost(s, i))
      <3>1. MovesOf(hist, i) \cup MovesOf(pending[s], i) = MovesOf(hist, i)
        BY <2>6
      <3> QED BY <2>4, <2>7, <3>1
    <2>9. ASSUME NEW s \in Sessions, NEW l \in Loc
          PROVE  Backed(Entries(hist[l]) \cup Entries(pending[s][l]), View(s, l))
      <3>1. View(s, l) = level[l] /\ Backed(Entries(hist[l]), level[l])
        BY <2>5
      <3> QED BY <3>1 DEF Backed, Inbound
    <2> QED BY <2>4, <2>5, <2>7, <2>8, <2>9 DEF FairAverages
  <1>2. DocsInv /\ FairAverages /\ [Next]_vars => DocsInv' /\ FairAverages'
    <2> SUFFICES ASSUME DocsInv, FairAverages, [Next]_vars
                 PROVE  DocsInv' /\ FairAverages'
      OBVIOUS
    <2>1. DocsInv'
      BY DocSteps
    <2>2. LedgerInv /\ LedgerInv'
      BY <2>1 DEF DocsInv, OversellInv
    <2>3. CASE UNCHANGED <<level, hist, avg, pending, newAvg>>
      <3>1. \A s, l : View(s, l)' = View(s, l)
        BY <2>3 DEF View
      <3>2. \A s, i : AverageCost(s, i)' = AverageCost(s, i)
        BY <2>3 DEF AverageCost
      <3> QED BY <2>1, <2>3, <3>1, <3>2 DEF FairAverages
    <2>4. CASE \E s \in Sessions : \/ RecordMovement(s)
                                   \/ End(s) /\ UNCHANGED <<level, hist, avg>>
                                   \/ Publish(s)
      <3>1. PICK s \in Sessions : \/ RecordMovement(s)
                                  \/ End(s) /\ UNCHANGED <<level, hist, avg>>
                                  \/ Publish(s)
        BY <2>4
      <3>2. FairAverages'
        BY <2>2, <3>1, MoveKeepsFair, EndKeepsFair, PublishKeepsFair
      <3> QED BY <2>1, <3>2
    <2> QED BY <2>1, <2>3, <2>4, CostSteps
  <1>3. DocsInv /\ FairAverages => AverageWithinCosts
    <2> SUFFICES ASSUME DocsInv, FairAverages, NEW i \in Items
                 PROVE  LET paid == Costs(MovesOf(hist, i))
                        IN  /\ paid = {} => avg[i] = 0
                            /\ paid # {} => avg[i] <= Max(paid)
                            /\ paid # {} /\ AllPaid(MovesOf(hist, i)) => avg[i] >= Min(paid)
      BY DEF AverageWithinCosts, MovesOf, Entries, Costs, Inbound, AllPaid
    <2>1. PICK M : M = MovesOf(hist, i)
      OBVIOUS
    <2>2. PICK paid : paid = Costs(M)
      OBVIOUS
    <2>3. hist \in [Loc -> Seq(Movement)]
      BY DEF DocsInv, OversellInv, LedgerInv, TypeOK
    <2>4. M \subseteq Movement
      BY <2>1, <2>3, MovesTyped
    <2>5. paid \subseteq Nat
      BY <2>2, <2>4 DEF Costs, Inbound, Movement
    <2>6. IsFiniteSet(paid)
      BY <2>1, <2>2, <2>3, FiniteCosts
    <2>7. PICK a \in Nat : a = avg[i]
      BY DEF FairAverages
    <2>8. Fair(M, a)
      BY <2>1, <2>7 DEF FairAverages
    <2>9. ASSUME paid # {}
          PROVE  /\ Max(paid) \in paid /\ \A y \in paid : y <= Max(paid)
                 /\ Min(paid) \in paid /\ \A y \in paid : Min(paid) <= y
      <3>1. paid \subseteq Int
        BY <2>5
      <3>2. Max(paid) \in paid /\ \A y \in paid : y <= Max(paid)
        BY <2>6, <2>9, <3>1, FiniteHasMax
      <3>3. Min(paid) \in paid /\ \A y \in paid : Min(paid) <= y
        BY <2>6, <2>9, <3>1, FiniteHasMin
      <3> QED BY <3>2, <3>3
    <2>10. paid = {} => a = 0
      BY <2>2, <2>8 DEF Fair
    <2>11. ASSUME paid # {} PROVE a <= Max(paid)
      <3>1. PICK c \in paid : a <= c
        BY <2>2, <2>8, <2>11 DEF Fair
      <3>2. c \in Nat /\ Max(paid) \in Nat /\ c <= Max(paid)
        BY <2>5, <2>9, <2>11
      <3> QED BY <3>1, <3>2
    <2>12. ASSUME paid # {}, AllPaid(M) PROVE a >= Min(paid)
      <3>1. PICK c \in paid : c <= a
        BY <2>2, <2>8, <2>12 DEF Fair
      <3>2. c \in Nat /\ Min(paid) \in Nat /\ Min(paid) <= c
        BY <2>5, <2>9, <2>12
      <3> QED BY <3>1, <3>2
    <2> QED BY <2>1, <2>2, <2>7, <2>10, <2>11, <2>12
  <1> QED BY <1>1, <1>2, <1>3, PTL DEF DocSpec

-----------------------------------------------------------------------------
(* Corrections                                                             *)
(*                                                                         *)
(* An adjustment or a count posts its rows one by one like a transfer, so  *)
(* the same notion of progress serves: a request that posts for a document *)
(* is always some way into the lines that it began with.                   *)

CorrectionOps == {"adjust", "approve", "count"}

\* A request that posts and goes on is further into its lines, or where it was.
LEMMA WorkGoesOn ==
    ASSUME DocsInv, [Next]_vars, NEW s \in Sessions, NEW p \in Seq(Line), NEW n \in Nat,
           Progress(s, p, n), \A k \in DOMAIN p : p[k].mode = "by",
           txn[s].op \notin {"idle", "import"}, txn'[s].op # "idle"
    PROVE  /\ txn'[s].op = txn[s].op /\ txn'[s].doc = txn[s].doc
           /\ \E m \in Nat : Progress(s, p, m)'
  <1>1. LedgerInv /\ LedgerInv' /\ DocStep
    BY DocSteps DEF DocsInv, OversellInv
  <1>2. Idle.op = "idle"
    BY DEF Idle
  \* A request that is not at work in this step.
  <1>3. ASSUME txn'[s] = txn[s],
               \A l \in Loc : /\ pending'[s][l] = pending[s][l]
                              /\ level'[l] = level[l] \/ pending[s][l] = <<>>
        PROVE  /\ txn'[s].op = txn[s].op /\ txn'[s].doc = txn[s].doc
               /\ \E m \in Nat : Progress(s, p, m)'
    <2>1. Progress(s, p, n)'
      BY <1>1, <1>3, ProgressKept
    <2> QED BY <2>1, <1>3
  <1>4. CASE Calm \/ Created
    BY <1>3, <1>4 DEF Calm, Created
  <1>5. ASSUME NEW r \in Sessions, Begun(r)
        PROVE  /\ txn'[s].op = txn[s].op /\ txn'[s].doc = txn[s].doc
               /\ \E m \in Nat : Progress(s, p, m)'
    <2>1. r # s
      BY <1>5 DEF Begun
    <2> QED BY <1>3, <1>5, <2>1 DEF Begun
  <1>6. ASSUME NEW r \in Sessions, Lined(r)
        PROVE  /\ txn'[s].op = txn[s].op /\ txn'[s].doc = txn[s].doc
               /\ \E m \in Nat : Progress(s, p, m)'
    <2>1. RecordMovement(r) \/ SkipImportRow(r)
      BY <1>6 DEF Lined
    <2>2. /\ level' = level
          /\ \A q \in Sessions : q # r => txn'[q] = txn[q]
          /\ txn'[r].op = txn[r].op /\ txn'[r].doc = txn[r].doc
          /\ SkipImportRow(r) => pending' = pending /\ txn[r].op = "import"
          /\ RecordMovement(r) => \A q \in Sessions, l \in Loc :
                q # r => pending'[q][l] = pending[q][l]
      BY <1>1, <2>1, LineFacts
    <2>3. CASE r # s
      <3>1. \A l \in Loc : pending'[s][l] = pending[s][l]
        BY <2>1, <2>2, <2>3
      <3> QED BY <1>3, <2>2, <2>3, <3>1
    <2>4. CASE r = s
      <3>1. RecordMovement(s)
        BY <2>1, <2>2, <2>4
      <3>2. Progress(s, p, n + 1)' /\ n + 1 \in Nat
        BY <1>1, <3>1, ProgressMade
      <3> QED BY <2>2, <2>4, <3>2
    <2> QED BY <2>3, <2>4
  <1>7. ASSUME NEW r \in Sessions, Dropped(r) \/ Published(r)
        PROVE  /\ txn'[s].op = txn[s].op /\ txn'[s].doc = txn[s].doc
               /\ \E m \in Nat : Progress(s, p, m)'
    <2>1. /\ \A q \in Sessions : txn'[q] = IF q = r THEN Idle ELSE txn[q]
          /\ \A q \in Sessions, l \in Loc :
                pending'[q][l] = IF q = r THEN <<>> ELSE pending[q][l]
      <3>1. End(r)
        BY <1>7 DEF Dropped, Published, Publish
      <3> QED BY <1>1, <3>1, EndFacts
    <2>2. r # s /\ txn'[s] = txn[s] /\ \A l \in Loc : pending'[s][l] = pending[s][l]
      BY <1>2, <2>1
    <2>3. \A l \in Loc : level'[l] = level[l] \/ pending[s][l] = <<>>
      <3>1. CASE Dropped(r)
        BY <3>1 DEF Dropped
      <3>2. CASE Published(r)
        <4> SUFFICES ASSUME NEW l \in Loc, pending[s][l] # <<>> PROVE level'[l] = level[l]
          OBVIOUS
        <4>1. pending[r][l] = <<>>
          BY <1>1, <2>2, PendingDisjoint
        <4>2. level'[l] = View(r, l)
          BY <3>2 DEF Published, Publish
        <4> QED BY <4>1, <4>2 DEF View
      <3> QED BY <1>7, <3>1, <3>2
    <2> QED BY <1>3, <2>2, <2>3
  <1> QED BY <1>1, <1>4, <1>5, <1>6, <1>7 DEF DocStep

\* A finished request has written just its lines, and sees what they moved.
LEMMA WholeWork ==
    ASSUME DocsInv, NEW s \in Sessions, Publish(s), NEW p \in Seq(Line), NEW n \in Nat,
           Progress(s, p, n)
    PROVE  /\ \A l \in Loc : View(s, l) = level[l] + Moved(p, l, Len(p))
           /\ \A l \in Loc : \A m \in DOMAIN pending[s][l] :
                 \E k \in DOMAIN p : Place(p[k]) = l /\ pending[s][l][m].ref = p[k].ref
           /\ \A k \in DOMAIN p : \E m \in DOMAIN pending[s][Place(p[k])] :
                 pending[s][Place(p[k])][m].ref = p[k].ref
  <1>1. n = Len(p) /\ DOMAIN p = 1 .. n
    <2>1. txn[s].todo = <<>>
      BY DEF Publish, Finished
    <2>2. Len(txn[s].todo) = 0
      BY <2>1
    <2>3. n \in 0 .. Len(p) /\ Len(txn[s].todo) = Len(p) - n
      BY DEF Progress
    <2> QED BY <2>2, <2>3, PlanTyped
  <1>2. \A l \in Loc : View(s, l) = level[l] + Moved(p, l, Len(p))
    BY <1>1 DEF Progress
  <1>3. /\ \A l \in Loc : \A m \in DOMAIN pending[s][l] :
              \E k \in 1 .. n : Place(p[k]) = l /\ pending[s][l][m].ref = p[k].ref
        /\ \A k \in 1 .. n : \E m \in DOMAIN pending[s][Place(p[k])] :
              pending[s][Place(p[k])][m].ref = p[k].ref
    BY DEF Progress
  <1>4. DOMAIN p = 1 .. n
    BY <1>1
  <1> QED BY <1>2, <1>3, <1>4, ZenonT(30)

\* A sum to which one member alone contributes.
LEMMA SumSingle ==
    ASSUME NEW f, NEW S, IsFiniteSet(S), \A x \in S : f[x] \in Int,
           NEW a \in S, \A x \in S \ {a} : f[x] = 0
    PROVE  SumOf(f, S) = f[a]
  <1>1. SumOf(f, S) = f[a] + SumOf(f, S \ {a})
    BY SumRemove
  <1>2. SumOf(f, S \ {a}) = 0
    BY FS_RemoveElement, SumZero
  <1>3. f[a] \in Int
    OBVIOUS
  <1> QED BY <1>1, <1>2, <1>3

\* Numbering a finite set in increasing order leaves nobody out, and a numbering
\* that leaves nobody out names nobody twice.
LEMMA OrderCovers ==
    ASSUME NEW K, IsFiniteSet(K), NEW order \in [1 .. Cardinality(K) -> K]
    PROVE  /\ Cardinality(K) \in Nat /\ Len(order) = Cardinality(K)
           /\ DOMAIN order = 1 .. Cardinality(K)
           /\ order \in InOrder(K) /\ K \subseteq Int =>
                 \A k \in K : \E n \in DOMAIN order : order[n] = k
           /\ (\A k \in K : \E n \in DOMAIN order : order[n] = k) =>
                 \A m, n \in DOMAIN order : order[m] = order[n] => m = n
  <1>1. PICK c \in Nat : c = Cardinality(K)
    BY FS_CardinalityType
  <1>2. IsFiniteSet(1 .. c) /\ Cardinality(1 .. c) = c
    <2>1. Cardinality(1 .. c) = IF 1 > c THEN 0 ELSE c - 1 + 1
      BY FS_Interval
    <2> QED BY <2>1, FS_Interval
  <1>3. order \in [1 .. c -> K] /\ DOMAIN order = 1 .. c
    BY <1>1
  <1>4. Len(order) = c
    BY <1>3
  <1>5. ASSUME order \in InOrder(K), K \subseteq Int
        PROVE  \A k \in K : \E n \in DOMAIN order : order[n] = k
    <2>1. \A m, n \in 1 .. c : m < n => order[m] < order[n]
      BY <1>3, <1>5 DEF InOrder
    <2>2. \A n \in 1 .. c : order[n] \in Int
      BY <1>3, <1>5
    <2>3. ASSUME NEW m \in 1 .. c, NEW n \in 1 .. c, order[m] = order[n] PROVE m = n
      <3>1. m \in Int /\ n \in Int /\ order[m] \in Int /\ order[n] \in Int
        BY <2>2
      <3>2. m < n => order[m] < order[n]
        BY <2>1
      <3>3. n < m => order[n] < order[m]
        BY <2>1
      <3> QED BY <3>1, <3>2, <3>3, <2>3
    <2>4. order \in Injection(1 .. c, K)
      BY <1>3, <2>3 DEF Injection, IsInjective
    <2>5. order \in Surjection(1 .. c, K)
      BY <1>1, <1>2, <2>4, FS_Injection
    <2> QED BY <1>3, <2>5 DEF Surjection
  <1>6. ASSUME \A k \in K : \E n \in DOMAIN order : order[n] = k
        PROVE  \A m, n \in DOMAIN order : order[m] = order[n] => m = n
    <2>1. order \in Surjection(1 .. c, K)
      BY <1>3, <1>6 DEF Surjection
    <2>2. order \in Injection(1 .. c, K)
      BY <1>1, <1>2, <2>1, FS_SurjSameCardinalityImpliesInj
    <2> QED BY <1>3, <2>2 DEF Injection, IsInjective
  <1> QED BY <1>1, <1>3, <1>4, <1>5, <1>6

\* Row k of adjustment a, posted as one line of x.
RowPlace(a, k) == <<a.wh, a.rows[k].item>>
IsRow(m, x, a, k) == /\ Place(m) = RowPlace(a, k)
                     /\ m.ref = [doc |-> x, leg |-> "adjust", row |-> k]

\* The lines p post each change of a once.
Corrects(p, x, a) ==
    /\ \A j \in DOMAIN p : p[j].mode = "by" /\ \E k \in WithChange(a) : IsRow(p[j], x, a, k)
    /\ \A k \in WithChange(a) : \E j \in DOMAIN p : IsRow(p[j], x, a, k)

LEMMA AdjustmentPlan ==
    ASSUME NEW a \in Adjustment, NEW x \in Adjustments, NEW order \in InOrder(WithChange(a))
    PROVE  /\ AdjustmentLines(x, a, order) \in Seq(Line)
           /\ Corrects(AdjustmentLines(x, a, order), x, a)
  <1> DEFINE K == WithChange(a)
             lines == AdjustmentLines(x, a, order)
  <1>1. lines \in Seq(Line)
    BY TypedAdjustmentLines
  <1>2. K \subseteq Int /\ IsFiniteSet(K)
    <2>1. a.rows \in Rows
      BY DEF Adjustment
    <2>2. DOMAIN a.rows = 1 .. Len(a.rows) /\ Len(a.rows) \in Nat
      BY <2>1, TypedRows
    <2>3. K \subseteq 1 .. Len(a.rows)
      BY <2>2 DEF WithChange
    <2>4. PICK n \in Nat : n = Len(a.rows)
      BY <2>2
    <2>5. IsFiniteSet(1 .. n)
      BY FS_Interval
    <2>6. K \subseteq 1 .. n
      BY <2>3, <2>4
    <2>7. IsFiniteSet(K)
      BY <2>5, <2>6, FS_Subset
    <2>8. K \subseteq Int
      BY <2>6
    <2> QED BY <2>7, <2>8
  <1>3. order \in [1 .. Cardinality(K) -> K]
    BY DEF InOrder
  <1>4. lines = [n \in 1 .. Len(order) |->
                   LineOf(a.rows[order[n]], a.wh,
                          IF a.rows[order[n]].qty > 0 THEN "adjust_in"
                                                      ELSE AdjustMovement(a.reason),
                          a.rows[order[n]].qty, TRUE, x, "adjust", order[n])]
    BY DEF AdjustmentLines
  <1> HIDE DEF K, lines
  <1>5. /\ DOMAIN order = 1 .. Cardinality(K) /\ Len(order) = Cardinality(K)
        /\ \A k \in K : \E n \in DOMAIN order : order[n] = k
    BY <1>2, <1>3, OrderCovers DEF K
  <1>6. DOMAIN lines = DOMAIN order
    BY <1>4, <1>5
  <1>7. ASSUME NEW n \in DOMAIN order
        PROVE  lines[n].mode = "by" /\ IsRow(lines[n], x, a, order[n]) /\ order[n] \in K
    <2>1. n \in 1 .. Len(order) /\ order[n] \in K
      BY <1>3, <1>5
    <2>2. PICK type : lines[n] = LineOf(a.rows[order[n]], a.wh, type,
                                        a.rows[order[n]].qty, TRUE, x, "adjust", order[n])
      BY <1>4, <2>1
    <2> QED BY <2>1, <2>2 DEF LineOf, IsRow, RowPlace, Place
  <1>8. Corrects(lines, x, a)
    BY <1>5, <1>6, <1>7 DEF Corrects, K
  <1> QED BY <1>1, <1>8 DEF lines

\* What an approved count k changes at location l, and lines that post just that.
Tally(k, l) == IF l[1] = k.wh /\ l[2] \in Differing(k) THEN Variance(k, l[2]) ELSE 0
Tallies(p, k) ==
    /\ \A j \in DOMAIN p : p[j].mode = "by"
    /\ \A l \in Loc : Moved(p, l, Len(p)) = Tally(k, l)

LEMMA CountPlan ==
    ASSUME DocTypes, NEW c \in Counts, count[c] # NoDoc,
           NEW order \in [1 .. Cardinality(Differing(count[c])) -> Differing(count[c])],
           \A i \in Differing(count[c]) : \E n \in DOMAIN order : order[n] = i
    PROVE  /\ CountLines(c, order) \in Seq(Line)
           /\ Tallies(CountLines(c, order), count[c])
  <1> DEFINE k == count[c]
             K == Differing(k)
             p == CountLines(c, order)
  <1>1. p \in Seq(Line)
    BY TypedCountLines
  <1>2. IsFiniteSet(K) /\ \A i \in K : Variance(k, i) \in Int
    <2>1. /\ k.counted \in Sheet /\ k.expected \in Sheet
          /\ IsFiniteSet(DOMAIN k.counted) /\ DOMAIN k.counted \subseteq DOMAIN k.expected
      BY DEF DocTypes, Count
    <2>2. K \subseteq DOMAIN k.counted
      BY DEF Differing
    <2>3. ASSUME NEW i \in K PROVE Variance(k, i) \in Int
      <3>1. k.counted[i] \in Int /\ k.expected[i] \in Int
        BY <2>1, <2>2 DEF Sheet
      <3> QED BY <3>1 DEF Variance
    <2> QED BY <2>1, <2>2, <2>3, FS_Subset
  <1>3. p = [n \in 1 .. Len(order) |->
               LineOf([item |-> order[n], qty |-> 0], k.wh, "count", Variance(k, order[n]),
                      FALSE, c, "count", 0)]
    BY DEF CountLines
  <1> HIDE DEF k, K, p
  <1>4. order \in [1 .. Cardinality(K) -> K] /\ \A i \in K : \E n \in DOMAIN order : order[n] = i
    BY DEF k, K
  <1>5. /\ Cardinality(K) \in Nat
        /\ DOMAIN order = 1 .. Cardinality(K) /\ Len(order) = Cardinality(K)
        /\ \A m, n \in DOMAIN order : order[m] = order[n] => m = n
    BY <1>2, <1>4, OrderCovers
  <1>6. DOMAIN p = DOMAIN order /\ Len(p) \in Nat /\ DOMAIN p = 1 .. Len(p)
    BY <1>1, <1>3, <1>5
  <1>7. ASSUME NEW n \in DOMAIN order
        PROVE  /\ p[n].mode = "by" /\ p[n].qty = Variance(k, order[n])
               /\ Place(p[n]) = <<k.wh, order[n]>> /\ order[n] \in K
    BY <1>3, <1>4, <1>5 DEF LineOf, Place
  <1>8. ASSUME NEW l \in Loc PROVE Moved(p, l, Len(p)) = Tally(k, l)
    <2> DEFINE f == Share(p, l)
               S == 1 .. Len(p)
    <2>1. IsFiniteSet(S) /\ Moved(p, l, Len(p)) = SumOf(f, S)
      BY <1>6, FS_Interval DEF Moved
    <2>2. \A n \in S : f[n] = IF Place(p[n]) = l THEN p[n].qty ELSE 0
      BY <1>6 DEF Share
    <2>3. \A n \in S : f[n] \in Int
      BY <2>2, <1>2, <1>6, <1>7
    <2> HIDE DEF f, S
    <2>4. l = <<l[1], l[2]>>
      BY DEF Loc
    <2>5. CASE l[1] = k.wh /\ l[2] \in K
      <3>1. PICK m \in DOMAIN order : order[m] = l[2]
        BY <2>5, <1>4
      <3>2. m \in S /\ f[m] = Variance(k, l[2])
        BY <3>1, <1>6, <1>7, <2>2, <2>4, <2>5 DEF S
      <3>3. ASSUME NEW n \in S \ {m} PROVE f[n] = 0
        <4>1. n \in DOMAIN order /\ order[n] # order[m]
          BY <1>5, <1>6 DEF S
        <4>2. Place(p[n]) # l
          BY <4>1, <3>1, <1>7
        <4> QED BY <4>2, <2>2
      <3>4. SumOf(f, S) = f[m]
        BY <2>1, <2>3, <3>2, <3>3, SumSingle
      <3> QED BY <2>1, <2>5, <3>2, <3>4 DEF Tally, K
    <2>6. CASE ~ (l[1] = k.wh /\ l[2] \in K)
      <3>1. \A n \in S : f[n] = 0
        <4> SUFFICES ASSUME NEW n \in S PROVE f[n] = 0
          OBVIOUS
        <4>1. Place(p[n]) = <<k.wh, order[n]>> /\ order[n] \in K
          BY <1>6, <1>7 DEF S
        <4>2. Place(p[n]) # l
          BY <4>1, <2>6
        <4> QED BY <4>2, <2>2
      <3>2. SumOf(f, S) = 0
        BY <3>1, <2>1, SumZero
      <3> QED BY <2>1, <2>6, <3>2 DEF Tally, K
    <2> QED BY <2>5, <2>6
  <1>9. Tallies(p, k)
    BY <1>6, <1>7, <1>8 DEF Tallies
  <1> QED BY <1>1, <1>9 DEF p, k

\* Posting for an adjustment: the one that the request creates, or the one that
\* waited for approval.
AdjustOps == {"adjust", "approve"}
Chosen(s) == IF txn[s].op = "adjust" THEN draft[s] ELSE adjustment[txn[s].doc]
Adjusts(s) ==
    /\ Chosen(s) \in Adjustment
    /\ txn[s].op = "adjust" => draft[s].status = "approved"
    /\ \E p \in Seq(Line), n \in Nat :
          Corrects(p, txn[s].doc, Chosen(s)) /\ Progress(s, p, n)
AdjustingHalfDone == \A s \in Sessions : txn[s].op \in AdjustOps => Adjusts(s)

\* What the histories H hold of adjustment x, which stands as a.
Applied(H, a, x) == \A k \in DOMAIN a.rows :
    Entered(H[RowPlace(a, k)], x, "adjust", k) <=> a.status = "approved" /\ a.rows[k].qty # 0
Untold(H, x) == \A l \in Loc : \A k : ~ Entered(H[l], x, "adjust", k)
AdjustmentsTold == \A x \in Adjustments :
    IF StatusOf(adjustment[x]) = "approved" THEN Applied(hist, adjustment[x], x)
                                            ELSE Untold(hist, x)

AdjustmentsInv == DocsInv /\ AdjustingHalfDone /\ AdjustmentsTold

\* The steps as they look to the adjustments.
AdjustingQuiet ==
    /\ UNCHANGED <<adjustment, draft, hist>>
    /\ \A s \in Sessions : txn[s].op = "idle" => txn'[s].op \notin AdjustOps
AdjustmentAsked(x) ==
    /\ UNCHANGED <<txn, hist, draft>>
    /\ DocUnlocked(x) /\ StatusOf(adjustment[x]) # "approved"
    /\ \E a \in Adjustment : /\ a.status # "approved"
                             /\ adjustment' = [adjustment EXCEPT ![x] = a]
AdjustingDropped(s) ==
    End(s) /\ UNCHANGED <<adjustment, hist>> /\ draft' = [draft EXCEPT ![s] = NoDoc]
PublishedElse(s) ==
    Published(s) /\ txn[s].op \notin AdjustOps /\ UNCHANGED <<adjustment, draft>>
AdjustingStep ==
    \/ AdjustingQuiet
    \/ \E x \in Adjustments : AdjustmentAsked(x)
    \/ \E s \in Sessions : \/ AdjustNow(s) \/ ApproveAdjustment(s) \/ CommitAdjustment(s)
                           \/ AdjustingDropped(s) \/ PublishedElse(s)

\* A request that begins leaves the others and the ledger as they are.
LEMMA OpBegun ==
    ASSUME TypeOK, NEW s \in Sessions, NEW op, NEW doc, NEW lines, NEW ahead,
           Begin(s, op, doc, lines, ahead)
    PROVE  /\ txn[s].op = "idle" /\ txn'[s].op = op /\ hist' = hist
           /\ \A r \in Sessions : r # s => txn'[r] = txn[r]
  <1>1. PICK t : txn' = [txn EXCEPT ![s] = t] /\ t.op = op
    <2>1. PICK seen \in {policy, "unread"} :
             txn' = [txn EXCEPT ![s] = [op |-> op, doc |-> doc, todo |-> lines,
                                        held |-> ahead, seen |-> seen, done |-> {}]]
      BY DEF Begin
    <2>2. PICK t : t = [op |-> op, doc |-> doc, todo |-> lines, held |-> ahead,
                        seen |-> seen, done |-> {}]
      OBVIOUS
    <2>3. txn' = [txn EXCEPT ![s] = t]
      BY <2>1, <2>2, Zenon
    <2>4. t.op = op
      BY <2>2
    <2> QED BY <2>3, <2>4
  <1>2. txn'[s].op = op /\ \A r \in Sessions : r # s => txn'[r] = txn[r]
    BY <1>1 DEF TypeOK
  <1> QED BY <1>2 DEF Begin

\* A request that begins with another kind of work.
LEMMA BeginsElse ==
    ASSUME TypeOK, NEW s \in Sessions, NEW op, op \notin AdjustOps, NEW doc, NEW lines,
           NEW ahead, Begin(s, op, doc, lines, ahead), adjustment' = adjustment, draft' = draft
    PROVE  AdjustingQuiet
  <1>1. "idle" \notin AdjustOps
    BY DEF AdjustOps
  <1> QED BY <1>1, OpBegun DEF AdjustingQuiet

LEMMA AdjustingSteps ==
    ASSUME DocsInv, [Next]_vars
    PROVE  AdjustingStep
  <1>1. TypeOK /\ LedgerInv /\ DocTypes /\ "idle" \notin AdjustOps
    BY DEF DocsInv, OversellInv, LedgerInv, AdjustOps
  <1>2. ASSUME UNCHANGED <<adjustment, draft, hist, txn>>
        PROVE  AdjustingStep
    <2>1. AdjustingQuiet
      BY <1>1, <1>2 DEF AdjustingQuiet
    <2> QED BY <2>1 DEF AdjustingStep
  <1>3. CASE UNCHANGED vars
    BY <1>2, <1>3 DEF vars
  <1>4. CASE CreateTransfer \/ StartCount \/ ((AssignLocation \/ SetPolicy) /\ UNCHANGED docVars)
    BY <1>2, <1>4 DEF CreateTransfer, StartCount, AssignLocation, SetPolicy, ledgerVars, docVars
  <1>5. ASSUME NEW s \in Sessions,
               SubmitCounts(s) \/ SaveCounted(s) \/ FinishForm(s) \/ LoseForm(s)
        PROVE  AdjustingStep
    BY <1>2, <1>5 DEF SubmitCounts, SaveCounted, FinishForm, LoseForm, ledgerVars
  <1>6. CASE RequestAdjustment
    <2>1. PICK x \in Adjustments, a \in Adjustment :
             /\ a.status = "pending" /\ adjustment[x] = NoDoc /\ DocUnlocked(x)
             /\ adjustment' = [adjustment EXCEPT ![x] = a]
             /\ txn' = txn /\ hist' = hist /\ draft' = draft
      BY <1>6 DEF RequestAdjustment, Accepted, ledgerVars
    <2>2. a.status # "approved" /\ StatusOf(adjustment[x]) # "approved"
      BY <2>1 DEF StatusOf
    <2>3. AdjustmentAsked(x)
      BY <2>1, <2>2 DEF AdjustmentAsked
    <2> QED BY <2>3 DEF AdjustingStep
  <1>7. CASE RejectAdjustment
    <2>1. PICK x \in Adjustments :
             /\ StatusOf(adjustment[x]) = "pending" /\ DocUnlocked(x)
             /\ adjustment' = [adjustment EXCEPT ![x].status = "rejected"]
             /\ txn' = txn /\ hist' = hist /\ draft' = draft
      BY <1>7 DEF RejectAdjustment, ledgerVars
    <2>2. PICK a : a = [adjustment[x] EXCEPT !.status = "rejected"]
      OBVIOUS
    <2>3. adjustment[x] \in Adjustment
      BY <1>1, <2>1 DEF DocTypes, StatusOf
    <2>4. a \in Adjustment /\ a.status # "approved"
      BY <2>2, <2>3 DEF Adjustment, AdjustmentStatus
    <2>5. adjustment' = [adjustment EXCEPT ![x] = a]
      BY <2>1, <2>2
    <2>6. AdjustmentAsked(x)
      BY <2>1, <2>4, <2>5 DEF AdjustmentAsked
    <2> QED BY <2>6 DEF AdjustingStep
  <1>8. ASSUME NEW s \in Sessions, LedgerStep(s)
        PROVE  AdjustingStep
    <2>1. adjustment' = adjustment /\ draft' = draft
      BY <1>8 DEF LedgerStep, docVars
    <2>2. CASE StartPosting(s) \/ StartOpening(s)
      <3>1. PICK p \in Postings : \E lines, ahead : Begin(s, p.op, NoDoc, lines, ahead)
        BY <2>2 DEF StartPosting, StartOpening
      <3>2. p.op \in {"post", "import", "opening"}
        BY StockConstants DEF Posting
      <3>3. p.op \notin AdjustOps
        BY <3>2 DEF AdjustOps
      <3>4. AdjustingQuiet
        BY <1>1, <2>1, <3>1, <3>3, BeginsElse
      <3> QED BY <3>4 DEF AdjustingStep
    <2>3. CASE RecordMovement(s) \/ SkipImportRow(s)
      <3>1. \A r \in Sessions : txn'[r].op = txn[r].op
        <4>1. /\ \A q \in Sessions : q # s => txn'[q] = txn[q]
              /\ txn'[s].op = txn[s].op
          BY <1>1, <2>3, LineFacts
        <4> QED BY <4>1
      <3>2. hist' = hist
        BY <2>3 DEF RecordMovement, SkipImportRow
      <3>3. AdjustingQuiet
        BY <1>1, <2>1, <3>1, <3>2 DEF AdjustingQuiet
      <3> QED BY <3>3 DEF AdjustingStep
    <2>4. CASE Commit(s)
      <3>1. txn[s].op \notin AdjustOps
        BY <2>4 DEF Commit, AdjustOps
      <3>2. UNCHANGED docVars
        BY <1>8 DEF LedgerStep
      <3>3. Published(s)
        BY <2>4, <3>2, PostingEnds
      <3>4. PublishedElse(s)
        BY <2>1, <3>1, <3>3 DEF PublishedElse
      <3> QED BY <3>4 DEF AdjustingStep
    <2> QED BY <1>8, <2>2, <2>3, <2>4 DEF LedgerStep
  <1>9. ASSUME NEW s \in Sessions, AbortStep(s)
        PROVE  AdjustingStep
    <2>1. AdjustingDropped(s)
      BY <1>9 DEF AbortStep, LosesDraft, Refuse, DeadlockVictim, Crash, Rollback,
                  AdjustingDropped
    <2> QED BY <2>1 DEF AdjustingStep
  <1>10. ASSUME NEW s \in Sessions, DispatchTransfer(s) \/ ReceiveTransfer(s) \/ CancelTransfer(s)
         PROVE  AdjustingStep
    <2>1. adjustment' = adjustment /\ draft' = draft
      BY <1>10 DEF DispatchTransfer, ReceiveTransfer, CancelTransfer, docVars
    <2>2. PICK op \in {"dispatch", "receive", "cancel"} :
             \E doc, lines, ahead : Begin(s, op, doc, lines, ahead)
      BY <1>10 DEF DispatchTransfer, ReceiveTransfer, CancelTransfer
    <2>3. op \notin AdjustOps
      BY <2>2 DEF AdjustOps
    <2>4. AdjustingQuiet
      BY <1>1, <2>1, <2>2, <2>3, BeginsElse
    <2> QED BY <2>4 DEF AdjustingStep
  <1>11. ASSUME NEW s \in Sessions, ApproveCount(s)
         PROVE  AdjustingStep
    <2>1. adjustment' = adjustment /\ draft' = draft
      BY <1>11 DEF ApproveCount
    <2>2. PICK doc, lines : Begin(s, "count", doc, lines, {})
      BY <1>11 DEF ApproveCount
    <2>3. "count" \notin AdjustOps
      BY DEF AdjustOps
    <2>4. AdjustingQuiet
      BY <1>1, <2>1, <2>2, <2>3, BeginsElse
    <2> QED BY <2>4 DEF AdjustingStep
  <1>12. ASSUME NEW s \in Sessions, CommitTransfer(s) \/ CommitCount(s)
         PROVE  AdjustingStep
    <2>1. Published(s)
      BY <1>12, TransferEnds, CorrectionEnds
    <2>2. adjustment' = adjustment /\ draft' = draft
      BY <1>12 DEF CommitTransfer, CommitCount
    <2>3. txn[s].op \notin AdjustOps
      BY <1>12 DEF CommitTransfer, CommitCount, NewStatus, AdjustOps
    <2>4. PublishedElse(s)
      BY <2>1, <2>2, <2>3 DEF PublishedElse
    <2> QED BY <2>4 DEF AdjustingStep
  <1>13. ASSUME NEW s \in Sessions, AdjustNow(s) \/ ApproveAdjustment(s) \/ CommitAdjustment(s)
         PROVE  AdjustingStep
    BY <1>13 DEF AdjustingStep
  <1> QED BY <1>3, <1>4, <1>5, <1>6, <1>7, <1>8, <1>9, <1>10, <1>11, <1>12, <1>13 DEF Next

\* A request keeps what it does and for which document until it ends.
LEMMA WorkStays ==
    ASSUME DocsInv, [Next]_vars, NEW s \in Sessions, txn[s].op # "idle", txn'[s].op # "idle"
    PROVE  /\ txn'[s].op = txn[s].op /\ txn'[s].doc = txn[s].doc
           /\ \A r \in Sessions : End(r) => r # s
  <1>1. LedgerInv /\ DocStep /\ Idle.op = "idle"
    BY DocSteps DEF DocsInv, OversellInv, Idle
  <1>2. ASSUME NEW r \in Sessions, End(r)
        PROVE  r # s /\ txn'[s] = txn[s]
    <2>1. txn'[s] = IF s = r THEN Idle ELSE txn[s]
      BY <1>1, <1>2, EndFacts
    <2> QED BY <2>1, <1>1
  <1>3. CASE Calm \/ Created
    BY <1>2, <1>3 DEF Calm, Created
  <1>4. ASSUME NEW r \in Sessions, Begun(r)
        PROVE  txn'[s] = txn[s]
    BY <1>4 DEF Begun
  <1>5. ASSUME NEW r \in Sessions, Lined(r)
        PROVE  txn'[s].op = txn[s].op /\ txn'[s].doc = txn[s].doc
    <2>1. RecordMovement(r) \/ SkipImportRow(r)
      BY <1>5 DEF Lined
    <2>2. /\ \A q \in Sessions : q # r => txn'[q] = txn[q]
          /\ txn'[r].op = txn[r].op /\ txn'[r].doc = txn[r].doc
      BY <1>1, <2>1, LineFacts
    <2> QED BY <2>2
  <1>6. ASSUME NEW r \in Sessions, Dropped(r) \/ Published(r)
        PROVE  txn'[s] = txn[s]
    BY <1>2, <1>6 DEF Dropped, Published, Publish
  <1> QED BY <1>1, <1>2, <1>3, <1>4, <1>5, <1>6 DEF DocStep

\* A request that begins to post for an adjustment has all its lines before it.
LEMMA AdjustmentBegins ==
    ASSUME DocsInv, DocsInv', NEW s \in Sessions, AdjustNow(s) \/ ApproveAdjustment(s)
    PROVE  /\ Adjusts(s)'
           /\ \A r \in Sessions : r # s => txn'[r] = txn[r] /\ draft'[r] = draft[r]
           /\ adjustment' = adjustment /\ hist' = hist
  <1>1. TypeOK /\ LedgerInv' /\ DocTypes
    BY DEF DocsInv, OversellInv, LedgerInv
  <1>2. PICK op \in AdjustOps, x \in Adjustments, a \in Adjustment :
           /\ \E order \in InOrder(WithChange(a)) : \E ahead :
                 Begin(s, op, x, AdjustmentLines(x, a, order), ahead)
           /\ adjustment' = adjustment
           /\ op = "adjust" => a.status = "approved" /\ draft' = [draft EXCEPT ![s] = a]
           /\ op = "approve" => a = adjustment[x] /\ draft' = draft
    <2>1. CASE AdjustNow(s)
      BY <2>1 DEF AdjustNow, Accepted, AdjustOps
    <2>2. CASE ApproveAdjustment(s)
      <3>1. PICK x \in Adjustments :
               /\ StatusOf(adjustment[x]) = "pending" /\ adjustment' = adjustment /\ draft' = draft
               /\ \E order \in InOrder(WithChange(adjustment[x])) :
                     Begin(s, "approve", x, AdjustmentLines(x, adjustment[x], order), {})
        BY <2>2 DEF ApproveAdjustment, docVars
      <3>2. adjustment[x] \in Adjustment
        BY <3>1, <1>1 DEF DocTypes, StatusOf
      <3> QED BY <3>1, <3>2 DEF AdjustOps
    <2> QED BY <2>1, <2>2
  <1>3. PICK order \in InOrder(WithChange(a)) :
           \E ahead : Begin(s, op, x, AdjustmentLines(x, a, order), ahead)
    BY <1>2
  <1>4. PICK p : /\ p \in Seq(Line) /\ Corrects(p, x, a)
                 /\ \E ahead : Begin(s, op, x, p, ahead)
    BY <1>3, AdjustmentPlan
  <1>5. PICK ahead : Begin(s, op, x, p, ahead)
    BY <1>4
  <1>6. /\ \A r \in Sessions : r # s => txn'[r] = txn[r]
        /\ txn'[s].op = op /\ txn'[s].doc = x /\ txn'[s].todo = p
        /\ pending' = pending /\ hist' = hist /\ level' = level /\ txn[s].op = "idle"
    BY <1>1, <1>5 DEF Begin, TypeOK
  <1>7. \A r \in Sessions : r # s => draft'[r] = draft[r]
    BY <1>1, <1>2 DEF DocTypes, AdjustOps
  <1>8. Chosen(s)' = a /\ (op = "adjust" => draft'[s].status = "approved")
    <2>1. CASE op = "adjust"
      <3>1. draft'[s] = a
        BY <1>1, <1>2, <2>1 DEF DocTypes
      <3> QED BY <1>2, <1>6, <2>1, <3>1 DEF Chosen
    <2>2. CASE op = "approve"
      BY <1>2, <1>6, <2>2 DEF Chosen
    <2> QED BY <2>1, <2>2 DEF AdjustOps
  <1>9. Progress(s, p, 0)'
    <2>1. \A l \in Loc : pending'[s][l] = <<>>
      BY <1>6 DEF DocsInv, OversellInv, LedgerInv, LocksExclude
    <2>2. \A l \in Loc : level'[l] \in Int
      BY <1>1 DEF LedgerInv, TypeOK
    <2> QED BY <1>4, <1>6, <2>1, <2>2, ProgressStarts
  <1>10. Corrects(p, txn[s].doc, Chosen(s))'
    BY <1>4, <1>6, <1>8 DEF Corrects, WithChange, IsRow, RowPlace, Place
  <1>11. Adjusts(s)'
    BY <1>4, <1>6, <1>8, <1>9, <1>10 DEF Adjusts
  <1> QED BY <1>2, <1>6, <1>7, <1>11

\* Nobody else changes the adjustment that a request posts for.
LEMMA ChosenStays ==
    ASSUME DocsInv, [Next]_vars, NEW s \in Sessions, txn[s].op \in AdjustOps,
           txn'[s].op # "idle"
    PROVE  Chosen(s)' = Chosen(s) /\ (txn[s].op = "adjust" => draft'[s] = draft[s])
  <1>1. AdjustingStep /\ DocsInv' /\ DocTypes /\ RequestsFit /\ DocsApart
    BY AdjustingSteps, DocSteps DEF DocsInv
  <1>2. /\ txn'[s].op = txn[s].op /\ txn'[s].doc = txn[s].doc /\ txn[s].op # "idle"
        /\ \A r \in Sessions : End(r) => r # s
    <2>1. txn[s].op # "idle"
      BY DEF AdjustOps
    <2> QED BY <2>1, WorkStays
  <1>3. txn[s].doc \in Adjustments /\ txn[s].doc # NoDoc
    <2>1. Fits(txn[s].op, txn[s].doc)
      BY <1>1 DEF RequestsFit
    <2> QED BY <2>1, DocSets DEF Fits, AdjustOps
  <1>4. ASSUME draft'[s] = draft[s], adjustment'[txn[s].doc] = adjustment[txn[s].doc]
        PROVE  Chosen(s)' = Chosen(s) /\ (txn[s].op = "adjust" => draft'[s] = draft[s])
    BY <1>2, <1>4 DEF Chosen
  <1>5. CASE AdjustingQuiet
    BY <1>4, <1>5 DEF AdjustingQuiet
  <1>6. ASSUME NEW x \in Adjustments, AdjustmentAsked(x)
        PROVE  Chosen(s)' = Chosen(s) /\ (txn[s].op = "adjust" => draft'[s] = draft[s])
    <2>1. x # txn[s].doc
      BY <1>6 DEF AdjustmentAsked, DocUnlocked
    <2>2. PICK a : adjustment' = [adjustment EXCEPT ![x] = a]
      BY <1>6 DEF AdjustmentAsked
    <2>3. adjustment'[txn[s].doc] = adjustment[txn[s].doc]
      BY <1>1, <1>3, <2>1, <2>2 DEF DocTypes
    <2> QED BY <1>4, <1>6, <2>3 DEF AdjustmentAsked
  <1>7. ASSUME NEW r \in Sessions, AdjustNow(r) \/ ApproveAdjustment(r)
        PROVE  Chosen(s)' = Chosen(s) /\ (txn[s].op = "adjust" => draft'[s] = draft[s])
    <2>1. r # s
      BY <1>2, <1>7 DEF AdjustNow, ApproveAdjustment, Begin
    <2>2. draft'[s] = draft[s] /\ adjustment' = adjustment
      BY <1>1, <1>7, <2>1, AdjustmentBegins
    <2> QED BY <1>4, <2>2
  <1>8. ASSUME NEW r \in Sessions, CommitAdjustment(r)
        PROVE  Chosen(s)' = Chosen(s) /\ (txn[s].op = "adjust" => draft'[s] = draft[s])
    <2>1. r # s /\ Publish(r) /\ draft' = [draft EXCEPT ![r] = NoDoc]
      BY <1>2, <1>8 DEF CommitAdjustment, Publish
    <2>2. txn[r].doc # txn[s].doc
      BY <1>1, <1>3, <2>1 DEF DocsApart
    <2>3. adjustment'[txn[s].doc] = adjustment[txn[s].doc]
      BY <1>3, <1>8, <2>2, CorrectionEnds
    <2>4. draft'[s] = draft[s]
      BY <1>1, <2>1 DEF DocTypes
    <2> QED BY <1>4, <2>3, <2>4
  <1>9. ASSUME NEW r \in Sessions, AdjustingDropped(r)
        PROVE  Chosen(s)' = Chosen(s) /\ (txn[s].op = "adjust" => draft'[s] = draft[s])
    <2>1. r # s /\ draft' = [draft EXCEPT ![r] = NoDoc] /\ adjustment' = adjustment
      BY <1>2, <1>9 DEF AdjustingDropped
    <2>2. draft'[s] = draft[s]
      BY <1>1, <2>1 DEF DocTypes
    <2> QED BY <1>4, <2>1, <2>2
  <1>10. ASSUME NEW r \in Sessions, PublishedElse(r)
         PROVE  Chosen(s)' = Chosen(s) /\ (txn[s].op = "adjust" => draft'[s] = draft[s])
    BY <1>4, <1>10 DEF PublishedElse
  <1> QED BY <1>1, <1>5, <1>6, <1>7, <1>8, <1>9, <1>10 DEF AdjustingStep

LEMMA AdjustingHalfDoneKept ==
    ASSUME DocsInv, AdjustingHalfDone, [Next]_vars
    PROVE  AdjustingHalfDone'
  <1>1. AdjustingStep /\ DocsInv' /\ LedgerInv /\ Idle.op = "idle" /\ "idle" \notin AdjustOps
    BY AdjustingSteps, DocSteps DEF DocsInv, OversellInv, Idle, AdjustOps
  <1> SUFFICES ASSUME NEW s \in Sessions, txn'[s].op \in AdjustOps
               PROVE  Adjusts(s)'
    BY DEF AdjustingHalfDone
  <1>2. CASE txn[s].op # "idle"
    <2>1. txn'[s].op = txn[s].op /\ txn'[s].doc = txn[s].doc
      BY <1>1, <1>2, WorkStays
    <2>2. Adjusts(s)
      BY <2>1 DEF AdjustingHalfDone
    <2>3. Chosen(s)' = Chosen(s) /\ (txn[s].op = "adjust" => draft'[s] = draft[s])
      BY <1>1, <2>1, ChosenStays
    <2>4. PICK p \in Seq(Line), n \in Nat :
             Corrects(p, txn[s].doc, Chosen(s)) /\ Progress(s, p, n)
      BY <2>2 DEF Adjusts
    <2>5. \A k \in DOMAIN p : p[k].mode = "by"
      BY <2>4 DEF Corrects
    <2>6. txn[s].op \notin {"idle", "import"}
      BY <2>1 DEF AdjustOps
    <2>7. \E m \in Nat : Progress(s, p, m)'
      BY <1>1, <2>4, <2>5, <2>6, WorkGoesOn
    <2>8. Corrects(p, txn[s].doc, Chosen(s))'
      BY <2>1, <2>3, <2>4 DEF Corrects, WithChange, IsRow, RowPlace, Place
    <2> QED BY <2>1, <2>2, <2>3, <2>7, <2>8 DEF Adjusts
  <1>3. CASE txn[s].op = "idle"
    <2>1. ASSUME NEW r \in Sessions, End(r) PROVE FALSE
      <3>1. txn'[s] = IF s = r THEN Idle ELSE txn[s]
        BY <1>1, <2>1, EndFacts
      <3> QED BY <1>1, <1>3, <3>1
    <2>2. ASSUME NEW r \in Sessions, AdjustNow(r) \/ ApproveAdjustment(r)
          PROVE  Adjusts(s)'
      <3>1. CASE r = s
        BY <1>1, <2>2, <3>1, AdjustmentBegins
      <3>2. CASE r # s
        <4>1. txn'[s] = txn[s]
          BY <1>1, <2>2, <3>2, AdjustmentBegins
        <4> QED BY <1>1, <1>3, <4>1
      <3> QED BY <3>1, <3>2
    <2>3. ~ AdjustingQuiet /\ \A x \in Adjustments : ~ AdjustmentAsked(x)
      BY <1>1, <1>3 DEF AdjustingQuiet, AdjustmentAsked
    <2>4. \A r \in Sessions : ~ CommitAdjustment(r) /\ ~ AdjustingDropped(r) /\ ~ PublishedElse(r)
      BY <2>1 DEF CommitAdjustment, AdjustingDropped, PublishedElse, Published, Publish
    <2> QED BY <1>1, <2>2, <2>3, <2>4 DEF AdjustingStep
  <1> QED BY <1>2, <1>3

\* A commit tells nothing of the documents that it does not hold.
LEMMA OthersUntouched ==
    ASSUME DocsInv, NEW s \in Sessions, Published(s), NEW x \in Adjustments, x # txn[s].doc,
           adjustment'[x] = adjustment[x],
           IF StatusOf(adjustment[x]) = "approved" THEN Applied(hist, adjustment[x], x)
                                                   ELSE Untold(hist, x)
    PROVE  IF StatusOf(adjustment'[x]) = "approved" THEN Applied(hist', adjustment'[x], x)
                                                    ELSE Untold(hist', x)
  <1>1. DocTypes
    BY DEF DocsInv
  <1>2. ASSUME NEW l \in Loc, NEW k
        PROVE  Entered(hist'[l], x, "adjust", k) <=> Entered(hist[l], x, "adjust", k)
    BY PublishEnters
  <1>3. CASE StatusOf(adjustment[x]) = "approved"
    <2>1. adjustment[x] \in Adjustment
      BY <1>1, <1>3 DEF DocTypes, StatusOf
    <2>2. \A k \in DOMAIN adjustment[x].rows : RowPlace(adjustment[x], k) \in Loc
      <3>1. adjustment[x].rows \in Rows /\ adjustment[x].wh \in Warehouses
        BY <2>1 DEF Adjustment
      <3>2. \A k \in DOMAIN adjustment[x].rows : adjustment[x].rows[k].item \in Items
        BY <3>1, TypedRows
      <3> QED BY <3>1, <3>2 DEF RowPlace, Loc
    <2> QED BY <1>2, <1>3, <2>2 DEF Applied
  <1>4. CASE StatusOf(adjustment[x]) # "approved"
    BY <1>2, <1>4 DEF Untold
  <1> QED BY <1>3, <1>4

\* A request that commits an adjustment has posted each of its changes, and no
\* change of anything else.
LEMMA AdjustmentPosted ==
    ASSUME DocsInv, NEW s \in Sessions, Publish(s), NEW p \in Seq(Line), NEW n \in Nat,
           NEW x, NEW a \in Adjustment, Corrects(p, x, a), Progress(s, p, n),
           NEW k \in DOMAIN a.rows
    PROVE  Entered(pending[s][RowPlace(a, k)], x, "adjust", k) <=> a.rows[k].qty # 0
  <1> DEFINE ref == [doc |-> x, leg |-> "adjust", row |-> k]
  <1>1. /\ a.rows \in Rows /\ a.wh \in Warehouses
        /\ a.rows[k].item \in Items
    <2>1. a.rows \in Rows /\ a.wh \in Warehouses
      BY DEF Adjustment
    <2> QED BY <2>1, TypedRows
  <1>2. RowPlace(a, k) \in Loc
    BY <1>1 DEF RowPlace, Loc
  <1>3. ASSUME a.rows[k].qty # 0
        PROVE  Entered(pending[s][RowPlace(a, k)], x, "adjust", k)
    <2>1. k \in WithChange(a)
      BY <1>3 DEF WithChange
    <2>2. PICK j \in DOMAIN p : IsRow(p[j], x, a, k)
      BY <2>1 DEF Corrects
    <2>3. \E m \in DOMAIN pending[s][Place(p[j])] : pending[s][Place(p[j])][m].ref = p[j].ref
      BY WholeWork
    <2> QED BY <2>2, <2>3 DEF IsRow, Entered
  <1>4. ASSUME Entered(pending[s][RowPlace(a, k)], x, "adjust", k)
        PROVE  a.rows[k].qty # 0
    <2>1. PICK m \in DOMAIN pending[s][RowPlace(a, k)] :
             pending[s][RowPlace(a, k)][m].ref = ref
      BY <1>4 DEF Entered
    <2>2. PICK j \in DOMAIN p : p[j].ref = ref
      BY <1>2, <2>1, WholeWork
    <2>3. PICK i \in WithChange(a) : IsRow(p[j], x, a, i)
      BY DEF Corrects
    <2>4. ref.row = i
      BY <2>2, <2>3 DEF IsRow
    <2>5. k \in WithChange(a)
      BY <2>3, <2>4
    <2> QED BY <2>5 DEF WithChange
  <1> QED BY <1>3, <1>4

LEMMA AdjustmentsToldKept ==
    ASSUME AdjustmentsInv, [Next]_vars
    PROVE  AdjustmentsTold'
  <1>1. /\ AdjustingStep /\ DocsInv /\ DocsInv' /\ DocTypes /\ RequestsFit /\ TypeOK
        /\ AdjustingHalfDone /\ AdjustmentsTold
    BY AdjustingSteps, DocSteps DEF AdjustmentsInv, DocsInv, OversellInv, LedgerInv
  <1>2. ASSUME hist' = hist, adjustment' = adjustment
        PROVE  AdjustmentsTold'
    BY <1>1, <1>2 DEF AdjustmentsTold
  <1>3. CASE AdjustingQuiet
    BY <1>2, <1>3 DEF AdjustingQuiet
  <1>4. ASSUME NEW x \in Adjustments, AdjustmentAsked(x)
        PROVE  AdjustmentsTold'
    <2>1. PICK a \in Adjustment :
             /\ a.status # "approved" /\ adjustment' = [adjustment EXCEPT ![x] = a]
             /\ hist' = hist /\ StatusOf(adjustment[x]) # "approved"
      BY <1>4 DEF AdjustmentAsked
    <2>2. \A y \in Adjustments : adjustment'[y] = IF y = x THEN a ELSE adjustment[y]
      BY <1>1, <2>1 DEF DocTypes
    <2>3. StatusOf(a) # "approved"
      BY <2>1 DEF StatusOf
    <2> SUFFICES ASSUME NEW y \in Adjustments
                 PROVE  IF StatusOf(adjustment'[y]) = "approved"
                        THEN Applied(hist', adjustment'[y], y) ELSE Untold(hist', y)
      BY DEF AdjustmentsTold
    <2> QED BY <1>1, <2>1, <2>2, <2>3 DEF AdjustmentsTold
  <1>5. ASSUME NEW s \in Sessions, AdjustNow(s) \/ ApproveAdjustment(s) \/ AdjustingDropped(s)
        PROVE  AdjustmentsTold'
    <2>1. adjustment' = adjustment /\ hist' = hist
      BY <1>1, <1>5, AdjustmentBegins DEF AdjustingDropped
    <2> QED BY <1>2, <2>1
  <1>6. ASSUME NEW s \in Sessions, Published(s),
               \A x \in Adjustments : adjustment'[x] = adjustment[x] \/ x = txn[s].doc,
               txn[s].doc \in Adjustments =>
                  IF StatusOf(adjustment'[txn[s].doc]) = "approved"
                  THEN Applied(hist', adjustment'[txn[s].doc], txn[s].doc)
                  ELSE Untold(hist', txn[s].doc)
        PROVE  AdjustmentsTold'
    <2> SUFFICES ASSUME NEW y \in Adjustments
                 PROVE  IF StatusOf(adjustment'[y]) = "approved"
                        THEN Applied(hist', adjustment'[y], y) ELSE Untold(hist', y)
      BY DEF AdjustmentsTold
    <2>1. CASE y = txn[s].doc
      BY <1>6, <2>1
    <2>2. CASE y # txn[s].doc
      <3>1. IF StatusOf(adjustment[y]) = "approved" THEN Applied(hist, adjustment[y], y)
                                                    ELSE Untold(hist, y)
        BY <1>1 DEF AdjustmentsTold
      <3> QED BY <1>1, <1>6, <2>2, <3>1, OthersUntouched
    <2> QED BY <2>1, <2>2
  <1>7. ASSUME NEW s \in Sessions, PublishedElse(s)
        PROVE  AdjustmentsTold'
    <2>1. Published(s) /\ txn[s].op \notin AdjustOps /\ adjustment' = adjustment
      BY <1>7 DEF PublishedElse
    <2>2. txn[s].doc \notin Adjustments
      BY <1>1, <2>1, DocSets DEF RequestsFit, Fits, TypeOK, Txn, Ops, AdjustOps
    <2> QED BY <1>6, <2>1, <2>2
  <1>8. ASSUME NEW s \in Sessions, CommitAdjustment(s)
        PROVE  AdjustmentsTold'
    <2> DEFINE x == txn[s].doc
               a == Chosen(s)
    <2>1. /\ Published(s) /\ Publish(s)
          /\ \A y \in Adjustments : adjustment'[y] = adjustment[y] \/ y = x
      BY <1>1, <1>8, CorrectionEnds DEF CommitAdjustment
    <2>2. txn[s].op \in AdjustOps
      BY <1>8 DEF CommitAdjustment, AdjustOps
    <2>3. Fits(txn[s].op, x) /\ Adjusts(s)
      BY <1>1, <2>2 DEF RequestsFit, AdjustingHalfDone
    <2>4. x \in Adjustments /\ StatusOf(adjustment[x]) # "approved"
      BY <2>2, <2>3 DEF Fits, AdjustOps, StatusOf
    <2>5. PICK b \in Adjustment :
             /\ adjustment'[x] = b /\ b.status = "approved"
             /\ b.wh = a.wh /\ b.rows = a.rows
      <3>1. a \in Adjustment /\ (txn[s].op = "adjust" => draft[s].status = "approved")
        BY <2>3 DEF Adjusts
      <3>2. CASE txn[s].op = "adjust"
        <4>1. adjustment' = [adjustment EXCEPT ![x] = draft[s]] /\ a = draft[s]
          BY <1>8, <3>2 DEF CommitAdjustment, Chosen
        <4> QED BY <1>1, <2>4, <3>1, <3>2, <4>1 DEF DocTypes
      <3>3. CASE txn[s].op = "approve"
        <4>1. /\ adjustment' = [adjustment EXCEPT ![x].status = "approved"]
              /\ a = adjustment[x]
          BY <1>8, <3>3 DEF CommitAdjustment, Chosen
        <4>2. PICK b : b = [adjustment[x] EXCEPT !.status = "approved"]
          OBVIOUS
        <4>3. b \in Adjustment /\ b.status = "approved" /\ b.wh = a.wh /\ b.rows = a.rows
          BY <3>1, <4>1, <4>2 DEF Adjustment, AdjustmentStatus
        <4>4. adjustment' = [adjustment EXCEPT ![x] = b]
          BY <4>1, <4>2
        <4>5. adjustment'[x] = b
          BY <1>1, <2>4, <4>4 DEF DocTypes
        <4> QED BY <4>3, <4>5
      <3> QED BY <2>2, <3>2, <3>3 DEF AdjustOps
    <2>6. ASSUME NEW k \in DOMAIN b.rows
          PROVE  Entered(hist'[RowPlace(b, k)], x, "adjust", k)
                    <=> b.status = "approved" /\ b.rows[k].qty # 0
      <3>1. PICK p \in Seq(Line), n \in Nat : Corrects(p, x, a) /\ Progress(s, p, n)
        BY <2>3 DEF Adjusts
      <3>2. a \in Adjustment /\ k \in DOMAIN a.rows
        BY <2>3, <2>5 DEF Adjusts
      <3>3. Entered(pending[s][RowPlace(a, k)], x, "adjust", k) <=> a.rows[k].qty # 0
        BY <1>1, <2>1, <3>1, <3>2, AdjustmentPosted
      <3>4. RowPlace(a, k) = RowPlace(b, k) /\ a.rows[k].qty = b.rows[k].qty
        BY <2>5 DEF RowPlace
      <3>5. RowPlace(b, k) \in Loc
        <4>1. b.rows \in Rows /\ b.wh \in Warehouses
          BY <2>5 DEF Adjustment
        <4>2. b.rows[k].item \in Items
          BY <4>1, TypedRows
        <4> QED BY <4>1, <4>2 DEF RowPlace, Loc
      <3>6. ~ Entered(hist[RowPlace(b, k)], x, "adjust", k)
        BY <1>1, <2>4, <3>5 DEF AdjustmentsTold, Untold
      <3>7. Entered(hist'[RowPlace(b, k)], x, "adjust", k)
               <=> \/ Entered(hist[RowPlace(b, k)], x, "adjust", k)
                   \/ Entered(pending[s][RowPlace(b, k)], x, "adjust", k)
        BY <1>1, <2>1, <3>5, PublishEnters
      <3> QED BY <2>5, <3>3, <3>4, <3>6, <3>7
    <2>7. Applied(hist', b, x)
      BY <2>6 DEF Applied
    <2>8. StatusOf(adjustment'[x]) = "approved"
      BY <2>5, DocSets DEF StatusOf
    <2> QED BY <1>6, <2>1, <2>5, <2>7, <2>8
  <1> QED BY <1>1, <1>3, <1>4, <1>5, <1>7, <1>8 DEF AdjustingStep

LEMMA InitAdjustmentsInv ==
    ASSUME Init PROVE AdjustmentsInv
  <1>1. DocsInv /\ TypeOK
    BY InitDocsInv DEF DocsInv, OversellInv, LedgerInv
  <1>2. AdjustingHalfDone
    BY DEF Init, InitLedger, Idle, AdjustingHalfDone, AdjustOps
  <1>3. ASSUME NEW x \in Adjustments
        PROVE  Untold(hist, x) /\ StatusOf(adjustment[x]) # "approved"
    <2>1. ASSUME NEW l \in Loc, NEW k, Entered(hist[l], x, "adjust", k) PROVE FALSE
      <3>1. PICK n \in DOMAIN hist[l] : hist[l][n].ref = [doc |-> x, leg |-> "adjust", row |-> k]
        BY <2>1 DEF Entered
      <3>2. hist[l] = LegacyHistory(l)
        BY DEF Init, InitLedger
      <3>3. hist[l][n].ref = Direct
        BY <3>1, <3>2, LegacyFacts
      <3> QED BY <3>1, <3>3 DEF Direct
    <2> QED BY <2>1 DEF Untold, Init, StatusOf
  <1> QED BY <1>1, <1>2, <1>3 DEF AdjustmentsInv, AdjustmentsTold

\* The ledger tells the same story as the adjustments: one that waits or was
\* rejected has moved nothing, an approved one has moved each of its changes, and
\* nothing for rows without one - whatever create_adjustment, approve_adjustment,
\* reject_adjustment and the requests of other documents do at once.
THEOREM AdjustmentsInTheLedger == DocSpec => []AdjustmentMatchesLedger
  <1>1. Init => AdjustmentsInv
    BY InitAdjustmentsInv
  <1>2. AdjustmentsInv /\ [Next]_vars => AdjustmentsInv'
    BY DocSteps, AdjustingHalfDoneKept, AdjustmentsToldKept DEF AdjustmentsInv
  <1>3. ASSUME AdjustmentsInv PROVE AdjustmentMatchesLedger
    <2> SUFFICES ASSUME NEW x \in Adjustments, adjustment[x] # NoDoc,
                        NEW k \in DOMAIN adjustment[x].rows
                 PROVE  Entered(hist[RowPlace(adjustment[x], k)], x, "adjust", k) <=>
                           adjustment[x].status = "approved" /\ adjustment[x].rows[k].qty # 0
      BY DEF AdjustmentMatchesLedger, Posted, Entered, RowPlace
    <2>1. CASE adjustment[x].status = "approved"
      BY <1>3, <2>1 DEF AdjustmentsInv, AdjustmentsTold, Applied, StatusOf
    <2>2. CASE adjustment[x].status # "approved"
      <3>1. Untold(hist, x)
        BY <1>3, <2>2 DEF AdjustmentsInv, AdjustmentsTold, StatusOf
      <3>2. adjustment[x] \in Adjustment
        BY <1>3 DEF AdjustmentsInv, DocsInv, DocTypes
      <3>3. RowPlace(adjustment[x], k) \in Loc
        <4>1. adjustment[x].rows \in Rows /\ adjustment[x].wh \in Warehouses
          BY <3>2 DEF Adjustment
        <4>2. adjustment[x].rows[k].item \in Items
          BY <4>1, TypedRows
        <4> QED BY <4>1, <4>2 DEF RowPlace, Loc
      <3> QED BY <2>2, <3>1, <3>3 DEF Untold
    <2> QED BY <2>1, <2>2
  <1> QED BY <1>1, <1>2, <1>3, PTL DEF DocSpec

\* Posting for a count: only the request that saves its quantities goes on to
\* approve it, as long as no other request is at the same count.
CountingHalfDone == \A s \in Sessions : txn[s].op = "count" =>
    /\ StatusOf(count[txn[s].doc]) = "open"
    /\ \E p \in Seq(Line), n \in Nat : Tallies(p, count[txn[s].doc]) /\ Progress(s, p, n)
FormsOpen == \A s \in Sessions : form[s] # NoDoc =>
    StatusOf(count[form[s].count]) = "open" /\ txn[s].op = "idle"

\* What history h holds of document d.
MovesFor(h, d) == {n \in DOMAIN h : h[n].ref.doc = d}
NetFor(h, d) == SumOf(Quantities(h), MovesFor(h, d))
CountsTold == \A c \in Counts, l \in Loc :
    IF StatusOf(count[c]) = "approved" THEN NetFor(hist[l], c) = Tally(count[c], l)
                                       ELSE MovesFor(hist[l], c) = {}

CountsInv == DocsInv /\ PendingNet /\ CountingHalfDone /\ FormsOpen /\ CountsTold

\* The steps as they look to the counts.
CountingQuiet ==
    /\ UNCHANGED <<count, hist>>
    /\ \A s \in Sessions : txn[s].op = "idle" => txn'[s].op # "count"
CountWritten(c) ==
    /\ UNCHANGED <<txn, hist>>
    /\ \A d \in Counts : d # c => count'[d] = count[d]
    /\ \/ count[c] = NoDoc /\ StatusOf(count'[c]) # "approved"
       \/ /\ StatusOf(count'[c]) = StatusOf(count[c])
          /\ \E s \in Sessions : form[s] # NoDoc /\ form[s].count = c
PublishedNoCount(s) == Published(s) /\ txn[s].op # "count" /\ count' = count
CountingStep ==
    \/ CountingQuiet
    \/ \E c \in Counts : CountWritten(c)
    \/ \E s \in Sessions : ApproveCount(s) \/ CommitCount(s) \/ PublishedNoCount(s)

LEMMA CountingSteps ==
    ASSUME DocsInv, [Next]_vars
    PROVE  CountingStep
  <1>1. TypeOK /\ LedgerInv /\ DocTypes
    BY DEF DocsInv, OversellInv, LedgerInv
  <1>2. ASSUME UNCHANGED <<count, hist>>, \A s \in Sessions : txn'[s].op # "count" \/ txn'[s] = txn[s]
        PROVE  CountingStep
    <2>1. CountingQuiet
      BY <1>2 DEF CountingQuiet
    <2> QED BY <2>1 DEF CountingStep
  <1>3. ASSUME count' = count, NEW s \in Sessions, NEW op, op # "count", NEW doc, NEW lines,
               NEW ahead, Begin(s, op, doc, lines, ahead)
        PROVE  CountingStep
    <2>1. /\ txn'[s].op = op /\ hist' = hist
          /\ \A r \in Sessions : r # s => txn'[r] = txn[r]
      BY <1>1, <1>3, OpBegun
    <2> QED BY <1>2, <1>3, <2>1
  <1>4. CASE UNCHANGED vars
    BY <1>2, <1>4 DEF vars
  <1>5. CASE \/ CreateTransfer \/ RequestAdjustment \/ RejectAdjustment
             \/ (AssignLocation \/ SetPolicy) /\ UNCHANGED docVars
    BY <1>2, <1>5 DEF CreateTransfer, RequestAdjustment, RejectAdjustment, AssignLocation,
                      SetPolicy, ledgerVars, docVars
  <1>6. CASE StartCount
    <2>1. PICK c \in Counts : \E k :
             /\ count[c] = NoDoc /\ count' = [count EXCEPT ![c] = k] /\ k.status = "open"
             /\ txn' = txn /\ hist' = hist
      BY <1>6 DEF StartCount, ledgerVars
    <2> PICK k : count' = [count EXCEPT ![c] = k] /\ k.status = "open"
      BY <2>1
    <2>2. \A d \in Counts : count'[d] = IF d = c THEN k ELSE count[d]
      BY <1>1, <2>1 DEF DocTypes
    <2>3. StatusOf(count'[c]) # "approved"
      BY <2>1, <2>2 DEF StatusOf
    <2>4. CountWritten(c)
      BY <2>1, <2>2, <2>3 DEF CountWritten
    <2> QED BY <2>4 DEF CountingStep
  <1>7. ASSUME NEW s \in Sessions, SaveCounted(s)
        PROVE  CountingStep
    <2>1. form[s] # NoDoc /\ txn' = txn /\ hist' = hist
      BY <1>7 DEF SaveCounted, ledgerVars
    <2>2. PICK c \in Counts : c = form[s].count /\ count[c] # NoDoc
      BY <1>1, <2>1 DEF DocTypes, Form
    <2>3. PICK g : count' = [count EXCEPT ![c].counted = g]
      BY <1>7, <2>2 DEF SaveCounted
    <2>4. count[c] \in Count
      BY <1>1, <2>2 DEF DocTypes
    <2>5. PICK k : k = [count[c] EXCEPT !.counted = g]
      OBVIOUS
    <2>6. k.status = count[c].status
      BY <2>4, <2>5 DEF Count
    <2>7. \A d \in Counts : count'[d] = IF d = c THEN k ELSE count[d]
      <3>1. count' = [count EXCEPT ![c] = k]
        BY <2>3, <2>5
      <3> QED BY <1>1, <3>1 DEF DocTypes
    <2>8. count'[c] # NoDoc
      BY <1>7, <2>2, Counted
    <2>9. StatusOf(count'[c]) = StatusOf(count[c])
      BY <2>2, <2>6, <2>7, <2>8 DEF StatusOf
    <2>10. CountWritten(c)
      BY <2>1, <2>2, <2>7, <2>9 DEF CountWritten
    <2> QED BY <2>10 DEF CountingStep
  <1>8. ASSUME NEW s \in Sessions, SubmitCounts(s) \/ FinishForm(s) \/ LoseForm(s)
        PROVE  CountingStep
    BY <1>2, <1>8 DEF SubmitCounts, FinishForm, LoseForm, ledgerVars
  <1>9. ASSUME NEW s \in Sessions, LedgerStep(s)
        PROVE  CountingStep
    <2>1. count' = count /\ UNCHANGED docVars
      BY <1>9 DEF LedgerStep, docVars
    <2>2. CASE StartPosting(s) \/ StartOpening(s)
      <3>1. PICK p \in Postings : \E lines, ahead : Begin(s, p.op, NoDoc, lines, ahead)
        BY <2>2 DEF StartPosting, StartOpening
      <3>2. p.op # "count"
        BY StockConstants DEF Posting
      <3> QED BY <1>3, <2>1, <3>1, <3>2
    <2>3. CASE RecordMovement(s) \/ SkipImportRow(s)
      <3>1. \A r \in Sessions : txn'[r].op = txn[r].op
        <4>1. /\ \A q \in Sessions : q # s => txn'[q] = txn[q]
              /\ txn'[s].op = txn[s].op
          BY <1>1, <2>3, LineFacts
        <4> QED BY <4>1
      <3>2. hist' = hist
        BY <2>3 DEF RecordMovement, SkipImportRow
      <3>3. CountingQuiet
        BY <2>1, <3>1, <3>2 DEF CountingQuiet
      <3> QED BY <3>3 DEF CountingStep
    <2>4. CASE Commit(s)
      <3>1. txn[s].op # "count"
        BY <2>4 DEF Commit
      <3>2. PublishedNoCount(s)
        BY <2>1, <2>4, <3>1, PostingEnds DEF PublishedNoCount
      <3> QED BY <3>2 DEF CountingStep
    <2> QED BY <1>9, <2>2, <2>3, <2>4 DEF LedgerStep
  <1>10. ASSUME NEW s \in Sessions, AbortStep(s)
         PROVE  CountingStep
    <2>1. Dropped(s) /\ count' = count
      BY <1>10, RequestDropped
    <2>2. End(s) /\ hist' = hist
      BY <2>1 DEF Dropped
    <2>3. \A r \in Sessions : txn'[r] = IF r = s THEN Idle ELSE txn[r]
      BY <1>1, <2>2, EndFacts
    <2>4. Idle.op # "count"
      BY DEF Idle
    <2> QED BY <1>2, <2>1, <2>2, <2>3, <2>4
  <1>11. ASSUME NEW s \in Sessions, DispatchTransfer(s) \/ ReceiveTransfer(s) \/ CancelTransfer(s)
         PROVE  CountingStep
    <2>1. count' = count
      BY <1>11 DEF DispatchTransfer, ReceiveTransfer, CancelTransfer, docVars
    <2>2. PICK op \in {"dispatch", "receive", "cancel"} :
             \E doc, lines, ahead : Begin(s, op, doc, lines, ahead)
      BY <1>11 DEF DispatchTransfer, ReceiveTransfer, CancelTransfer
    <2>3. op # "count"
      BY <2>2
    <2> QED BY <1>3, <2>1, <2>2, <2>3
  <1>12. ASSUME NEW s \in Sessions, AdjustNow(s) \/ ApproveAdjustment(s)
         PROVE  CountingStep
    <2>1. count' = count
      BY <1>12 DEF AdjustNow, ApproveAdjustment, docVars
    <2>2. PICK op \in AdjustOps : \E doc, lines, ahead : Begin(s, op, doc, lines, ahead)
      BY <1>12 DEF AdjustNow, ApproveAdjustment, AdjustOps
    <2>3. op # "count"
      BY <2>2 DEF AdjustOps
    <2> QED BY <1>3, <2>1, <2>2, <2>3
  <1>13. ASSUME NEW s \in Sessions, CommitTransfer(s) \/ CommitAdjustment(s)
         PROVE  CountingStep
    <2>1. Published(s)
      BY <1>13, TransferEnds, CorrectionEnds
    <2>2. count' = count
      BY <1>13 DEF CommitTransfer, CommitAdjustment
    <2>3. txn[s].op # "count"
      BY <1>13 DEF CommitTransfer, CommitAdjustment, NewStatus
    <2>4. PublishedNoCount(s)
      BY <2>1, <2>2, <2>3 DEF PublishedNoCount
    <2> QED BY <2>4 DEF CountingStep
  <1>14. ASSUME NEW s \in Sessions, ApproveCount(s) \/ CommitCount(s)
         PROVE  CountingStep
    BY <1>14 DEF CountingStep
  <1> QED BY <1>4, <1>5, <1>6, <1>7, <1>8, <1>9, <1>10, <1>11, <1>12, <1>13, <1>14 DEF Next

\* While a form is saved its session does nothing else, and its count stays the same.
FormGoesOn(s) == form'[s] # NoDoc =>
    /\ txn[s].op = "idle" => txn'[s].op = "idle"
    /\ \/ form[s] # NoDoc /\ form'[s].count = form[s].count
       \/ /\ count' = count /\ form'[s].count \in Counts
          /\ StatusOf(count[form'[s].count]) = "open" /\ txn'[s].op = "idle"

LEMMA FormSteps ==
    ASSUME DocsInv, [Next]_vars, NEW s \in Sessions
    PROVE  FormGoesOn(s)
  <1>1. TypeOK /\ LedgerInv /\ DocTypes
    BY DEF DocsInv, OversellInv, LedgerInv
  <1>2. ASSUME form' = form, txn'[s] = txn[s] \/ txn'[s].op = "idle" \/ form[s] = NoDoc
        PROVE  FormGoesOn(s)
    BY <1>2 DEF FormGoesOn
  \* A request that begins, and one that ends.
  <1>3. ASSUME form' = form, NEW r \in Sessions, form[r] = NoDoc, NEW op, NEW doc, NEW lines,
               NEW ahead, Begin(r, op, doc, lines, ahead)
        PROVE  FormGoesOn(s)
    <2>1. \A q \in Sessions : q # r => txn'[q] = txn[q]
      BY <1>1, <1>3, OpBegun
    <2> QED BY <1>2, <1>3, <2>1
  <1>4. ASSUME form' = form, NEW r \in Sessions, End(r)
        PROVE  FormGoesOn(s)
    <2>1. txn'[s] = IF s = r THEN Idle ELSE txn[s]
      BY <1>1, <1>4, EndFacts
    <2> QED BY <1>2, <1>4, <2>1 DEF Idle
  <1>5. CASE UNCHANGED vars
    BY <1>2, <1>5 DEF vars
  <1>6. CASE \/ CreateTransfer \/ RequestAdjustment \/ RejectAdjustment \/ StartCount
             \/ (AssignLocation \/ SetPolicy) /\ UNCHANGED docVars
    BY <1>2, <1>6 DEF CreateTransfer, RequestAdjustment, RejectAdjustment, StartCount,
                      AssignLocation, SetPolicy, ledgerVars, docVars
  <1>7. ASSUME NEW r \in Sessions, SubmitCounts(r)
        PROVE  FormGoesOn(s)
    <2>1. PICK c \in Counts :
             /\ StatusOf(count[c]) = "open" /\ txn[r].op = "idle" /\ txn' = txn /\ count' = count
             /\ \E f : f.count = c /\ form' = [form EXCEPT ![r] = f]
      BY <1>7 DEF SubmitCounts, ledgerVars
    <2>2. PICK f : f.count = c /\ form' = [form EXCEPT ![r] = f]
      BY <2>1
    <2>3. form'[s] = IF s = r THEN f ELSE form[s]
      BY <1>1, <2>2 DEF DocTypes
    <2> QED BY <2>1, <2>2, <2>3 DEF FormGoesOn
  <1>8. ASSUME NEW r \in Sessions, SaveCounted(r)
        PROVE  FormGoesOn(s)
    <2>1. PICK v : /\ form[r] # NoDoc /\ txn' = txn
                   /\ form' = [form EXCEPT ![r] = [form[r] EXCEPT !.values = v]]
      BY <1>8 DEF SaveCounted, ledgerVars
    <2>2. form[r] \in Form
      BY <1>1, <2>1 DEF DocTypes
    <2>3. [form[r] EXCEPT !.values = v].count = form[r].count
      BY <2>2 DEF Form
    <2>4. form'[s] = IF s = r THEN [form[r] EXCEPT !.values = v] ELSE form[s]
      BY <1>1, <2>1 DEF DocTypes
    <2> QED BY <2>1, <2>3, <2>4 DEF FormGoesOn
  <1>9. ASSUME NEW r \in Sessions, FinishForm(r) \/ LoseForm(r) \/ ApproveCount(r)
        PROVE  FormGoesOn(s)
    <2>1. form' = [form EXCEPT ![r] = NoDoc]
      BY <1>9 DEF FinishForm, LoseForm, ApproveCount
    <2>2. form'[s] = IF s = r THEN NoDoc ELSE form[s]
      BY <1>1, <2>1 DEF DocTypes
    <2>3. s # r => txn'[s] = txn[s]
      <3>1. CASE FinishForm(r) \/ LoseForm(r)
        BY <3>1 DEF FinishForm, LoseForm, ledgerVars
      <3>2. CASE ApproveCount(r)
        <4>1. PICK c, lines : Begin(r, "count", c, lines, {})
          BY <3>2 DEF ApproveCount
        <4> QED BY <1>1, <4>1, OpBegun
      <3> QED BY <1>9, <3>1, <3>2
    <2> QED BY <2>2, <2>3 DEF FormGoesOn
  <1>10. ASSUME NEW r \in Sessions, LedgerStep(r)
         PROVE  FormGoesOn(s)
    <2>1. form' = form
      BY <1>10 DEF LedgerStep, docVars
    <2>2. CASE Free(r) /\ (StartPosting(r) \/ StartOpening(r))
      <3>1. PICK p \in Postings : \E lines, ahead : Begin(r, p.op, NoDoc, lines, ahead)
        BY <2>2 DEF StartPosting, StartOpening
      <3> QED BY <1>3, <2>1, <2>2, <3>1 DEF Free
    <2>3. CASE RecordMovement(r) \/ SkipImportRow(r)
      <3>1. txn'[s].op = txn[s].op
        <4>1. /\ \A q \in Sessions : q # r => txn'[q] = txn[q]
              /\ txn'[r].op = txn[r].op
          BY <1>1, <2>3, LineFacts
        <4> QED BY <4>1
      <3> QED BY <2>1, <3>1 DEF FormGoesOn
    <2>4. CASE Commit(r)
      BY <1>4, <2>1, <2>4 DEF Commit, Publish
    <2> QED BY <1>10, <2>2, <2>3, <2>4 DEF LedgerStep
  <1>11. ASSUME NEW r \in Sessions, AbortStep(r)
         PROVE  FormGoesOn(s)
    <2>1. form' = form /\ End(r)
      BY <1>11 DEF AbortStep, LosesDraft, Refuse, DeadlockVictim, Crash, Rollback
    <2> QED BY <1>4, <2>1
  <1>12. ASSUME NEW r \in Sessions, DispatchTransfer(r) \/ ReceiveTransfer(r) \/ CancelTransfer(r)
         PROVE  FormGoesOn(s)
    <2>1. /\ form' = form /\ form[r] = NoDoc
          /\ \E op, doc, lines, ahead : Begin(r, op, doc, lines, ahead)
      BY <1>12 DEF DispatchTransfer, ReceiveTransfer, CancelTransfer, docVars, Free
    <2> QED BY <1>3, <2>1
  <1>13. ASSUME NEW r \in Sessions, AdjustNow(r) \/ ApproveAdjustment(r)
         PROVE  FormGoesOn(s)
    <2>1. /\ form' = form /\ form[r] = NoDoc
          /\ \E op, doc, lines, ahead : Begin(r, op, doc, lines, ahead)
      BY <1>13 DEF AdjustNow, ApproveAdjustment, docVars, Free
    <2> QED BY <1>3, <2>1
  <1>14. ASSUME NEW r \in Sessions, CommitTransfer(r) \/ CommitAdjustment(r) \/ CommitCount(r)
         PROVE  FormGoesOn(s)
    BY <1>4, <1>14 DEF CommitTransfer, CommitAdjustment, CommitCount, Publish
  <1> QED BY <1>5, <1>6, <1>7, <1>8, <1>9, <1>10, <1>11, <1>12, <1>13, <1>14 DEF Next

\* Which count a request or a form is about.
LEMMA CountFacts ==
    ASSUME DocsInv, NEW s \in Sessions
    PROVE  /\ form[s] # NoDoc => form[s].count \in Counts /\ count[form[s].count] # NoDoc
           /\ txn[s].op = "count" => txn[s].doc \in Counts /\ count[txn[s].doc] # NoDoc
           /\ txn[s].doc \in Counts => txn[s].op = "count" /\ txn[s].doc # NoDoc
  <1>1. DocTypes /\ RequestsFit /\ TypeOK
    BY DEF DocsInv, OversellInv, LedgerInv
  <1>2. form[s] # NoDoc => form[s].count \in Counts /\ count[form[s].count] # NoDoc
    BY <1>1 DEF DocTypes, Form
  <1>3. txn[s].op \in Ops /\ Fits(txn[s].op, txn[s].doc)
    BY <1>1 DEF RequestsFit, TypeOK, Txn
  <1> QED BY <1>2, <1>3, DocSets DEF Fits, Ops


LEMMA FormsOpenKept ==
    ASSUME DocsInv, FormsOpen, CountsAlone, [Next]_vars
    PROVE  FormsOpen'
  <1>1. CountingStep /\ DocTypes
    BY CountingSteps DEF DocsInv
  <1> SUFFICES ASSUME NEW s \in Sessions, form'[s] # NoDoc
               PROVE  StatusOf(count'[form'[s].count]) = "open" /\ txn'[s].op = "idle"
    BY DEF FormsOpen
  <1>2. FormGoesOn(s)
    BY FormSteps
  <1>3. CASE /\ count' = count /\ form'[s].count \in Counts
             /\ StatusOf(count[form'[s].count]) = "open" /\ txn'[s].op = "idle"
    BY <1>3
  <1>4. CASE form[s] # NoDoc /\ form'[s].count = form[s].count
    <2> DEFINE c == form[s].count
    <2>1. /\ c \in Counts /\ count[c] # NoDoc /\ StatusOf(count[c]) = "open"
          /\ txn[s].op = "idle" /\ txn'[s].op = "idle"
      BY <1>2, <1>4, CountFacts DEF FormsOpen, FormGoesOn
    <2>2. StatusOf(count'[c]) = "open"
      <3>1. CASE count' = count
        BY <2>1, <3>1
      <3>2. ASSUME NEW d \in Counts, CountWritten(d)
            PROVE  StatusOf(count'[c]) = "open"
        BY <2>1, <3>2 DEF CountWritten
      <3>3. ASSUME NEW r \in Sessions, CommitCount(r)
            PROVE  StatusOf(count'[c]) = "open"
        <4>1. txn[r].op = "count" /\ count' = [count EXCEPT ![txn[r].doc].status = "approved"]
          BY <3>3 DEF CommitCount
        <4>2. r # s
          BY <2>1, <4>1
        <4>3. txn[r].doc # c
          BY <1>4, <2>1, <4>2 DEF CountsAlone, AtCount
        <4>4. count'[c] = count[c]
          BY <1>1, <2>1, <4>1, <4>3 DEF DocTypes
        <4> QED BY <2>1, <4>4
      <3>4. ASSUME NEW r \in Sessions, ApproveCount(r) \/ PublishedNoCount(r)
            PROVE  count' = count
        BY <3>4 DEF ApproveCount, PublishedNoCount
      <3> QED BY <1>1, <3>1, <3>2, <3>3, <3>4 DEF CountingStep, CountingQuiet
    <2> QED BY <1>4, <2>1, <2>2
  <1> QED BY <1>2, <1>3, <1>4 DEF FormGoesOn

\* Nobody else changes the count that a request posts for.
LEMMA PostedCountStays ==
    ASSUME DocsInv, FormsOpen, CountsAlone, [Next]_vars, NEW s \in Sessions,
           txn[s].op = "count", txn'[s].op # "idle"
    PROVE  count'[txn[s].doc] = count[txn[s].doc]
  <1> DEFINE c == txn[s].doc
  <1>1. CountingStep /\ DocTypes /\ DocsApart /\ c \in Counts /\ count[c] # NoDoc /\ c # NoDoc
    BY CountingSteps, CountFacts DEF DocsInv
  <1>2. \A r \in Sessions : End(r) => r # s
    BY WorkStays
  <1>3. ASSUME NEW d \in Counts, CountWritten(d)
        PROVE  count'[c] = count[c]
    <2>1. CASE d # c
      BY <1>1, <1>3, <2>1 DEF CountWritten
    <2>2. CASE d = c
      <3>1. PICK r \in Sessions : form[r] # NoDoc /\ form[r].count = c
        BY <1>1, <1>3, <2>2 DEF CountWritten
      <3>2. r # s
        BY <3>1 DEF FormsOpen
      <3> QED BY <1>1, <3>1, <3>2 DEF CountsAlone, AtCount
    <2> QED BY <2>1, <2>2
  <1>4. ASSUME NEW r \in Sessions, CommitCount(r)
        PROVE  count'[c] = count[c]
    <2>1. /\ End(r) /\ txn[r].op = "count"
          /\ count' = [count EXCEPT ![txn[r].doc].status = "approved"]
      BY <1>4 DEF CommitCount, Publish
    <2>2. txn[r].doc # c
      BY <1>1, <1>2, <2>1 DEF DocsApart
    <2> QED BY <1>1, <2>1, <2>2 DEF DocTypes
  <1>5. ASSUME NEW r \in Sessions, ApproveCount(r) \/ PublishedNoCount(r)
        PROVE  count' = count
    BY <1>5 DEF ApproveCount, PublishedNoCount
  <1> QED BY <1>1, <1>3, <1>4, <1>5 DEF CountingStep, CountingQuiet

\* A request that begins to post a count has all its lines before it.
LEMMA CountBegins ==
    ASSUME DocsInv, DocsInv', NEW s \in Sessions, ApproveCount(s)
    PROVE  /\ \A r \in Sessions : r # s => txn'[r] = txn[r]
           /\ StatusOf(count'[txn'[s].doc]) = "open"
           /\ \E p \in Seq(Line), n \in Nat :
                 Tallies(p, count'[txn'[s].doc]) /\ Progress(s, p, n)'
  <1>1. TypeOK /\ LedgerInv' /\ DocTypes
    BY DEF DocsInv, OversellInv, LedgerInv
  <1>2. PICK c \in Counts : /\ StatusOf(count[c]) = "open" /\ count' = count
                            /\ c = form[s].count /\ form[s] # NoDoc
    BY <1>1 DEF ApproveCount, DocTypes, Form
  <1>3. count[c] # NoDoc
    BY <1>2 DEF StatusOf
  <1>4. PICK order \in [1 .. Cardinality(Differing(count[c])) -> Differing(count[c])] :
           /\ \A i \in Differing(count[c]) : \E n \in DOMAIN order : order[n] = i
           /\ Begin(s, "count", c, CountLines(c, order), {})
    BY <1>2 DEF ApproveCount
  <1>5. PICK p \in Seq(Line) : Tallies(p, count[c]) /\ Begin(s, "count", c, p, {})
    BY <1>1, <1>3, <1>4, CountPlan
  <1>6. /\ \A r \in Sessions : r # s => txn'[r] = txn[r]
        /\ txn'[s].doc = c /\ txn'[s].todo = p
        /\ pending' = pending /\ level' = level /\ txn[s].op = "idle"
    BY <1>1, <1>5 DEF Begin, TypeOK
  <1>7. Progress(s, p, 0)'
    <2>1. \A l \in Loc : pending'[s][l] = <<>>
      BY <1>6 DEF DocsInv, OversellInv, LedgerInv, LocksExclude
    <2>2. \A l \in Loc : level'[l] \in Int
      BY <1>1 DEF LedgerInv, TypeOK
    <2> QED BY <1>6, <2>1, <2>2, ProgressStarts
  <1> QED BY <1>2, <1>5, <1>6, <1>7

LEMMA CountingHalfDoneKept ==
    ASSUME DocsInv, CountingHalfDone, FormsOpen, CountsAlone, [Next]_vars
    PROVE  CountingHalfDone'
  <1>1. CountingStep /\ DocsInv' /\ LedgerInv /\ Idle.op = "idle"
    BY CountingSteps, DocSteps DEF DocsInv, OversellInv, Idle
  <1> SUFFICES ASSUME NEW s \in Sessions, txn'[s].op = "count"
               PROVE  /\ StatusOf(count'[txn'[s].doc]) = "open"
                      /\ \E p \in Seq(Line), n \in Nat :
                            Tallies(p, count'[txn'[s].doc]) /\ Progress(s, p, n)'
    BY DEF CountingHalfDone, Tallies, Moved, Share, Tally, Differing, Variance, Place
  <1>2. CASE txn[s].op # "idle"
    <2>1. txn'[s].op = txn[s].op /\ txn'[s].doc = txn[s].doc
      BY <1>1, <1>2, WorkStays
    <2>2. count'[txn'[s].doc] = count[txn[s].doc]
      BY <2>1, PostedCountStays
    <2>3. StatusOf(count[txn[s].doc]) = "open"
      BY <2>1 DEF CountingHalfDone
    <2>4. PICK p \in Seq(Line), n \in Nat :
             Tallies(p, count[txn[s].doc]) /\ Progress(s, p, n)
      BY <2>1 DEF CountingHalfDone
    <2>5. \A k \in DOMAIN p : p[k].mode = "by"
      BY <2>4 DEF Tallies
    <2>6. txn[s].op \notin {"idle", "import"}
      BY <2>1
    <2>7. \E m \in Nat : Progress(s, p, m)'
      BY <1>1, <2>4, <2>5, <2>6, WorkGoesOn
    <2> QED BY <2>2, <2>3, <2>4, <2>7
  <1>3. CASE txn[s].op = "idle"
    <2>1. ASSUME NEW r \in Sessions, End(r) PROVE FALSE
      <3>1. txn'[s] = IF s = r THEN Idle ELSE txn[s]
        BY <1>1, <2>1, EndFacts
      <3> QED BY <1>1, <1>3, <3>1
    <2>2. PICK r \in Sessions : ApproveCount(r)
      <3>1. ~ CountingQuiet /\ \A c \in Counts : ~ CountWritten(c)
        BY <1>3 DEF CountingQuiet, CountWritten
      <3>2. \A r \in Sessions : ~ CommitCount(r) /\ ~ PublishedNoCount(r)
        BY <2>1 DEF CommitCount, PublishedNoCount, Published, Publish
      <3> QED BY <1>1, <3>1, <3>2 DEF CountingStep
    <2>3. r = s
      BY <1>1, <1>3, <2>2, CountBegins
    <2> QED BY <1>1, <2>2, <2>3, CountBegins
  <1> QED BY <1>2, <1>3

\* A commit adds what the request wrote to its own document's share of the ledger
\* and leaves the share of every other document alone.
LEMMA PublishFor ==
    ASSUME DocsInv, PendingNet, NEW s \in Sessions, Published(s), NEW c \in Counts,
           NEW l \in Loc
    PROVE  /\ txn[s].doc # c => /\ MovesFor(hist'[l], c) = MovesFor(hist[l], c)
                                /\ NetFor(hist'[l], c) = NetFor(hist[l], c)
           /\ txn[s].doc = c /\ MovesFor(hist[l], c) = {} =>
                 NetFor(hist'[l], c) = level'[l] - level[l]
  <1> DEFINE h == hist[l]
             w == pending[s][l]
             g == hist'[l]
  <1>1. TypeOK /\ RefsOwn
    BY DEF DocsInv, OversellInv, LedgerInv
  <1>2. h \in Seq(Movement) /\ w \in Seq(Movement) /\ g = h \o w
    BY <1>1 DEF TypeOK, Published, Publish
  <1>3. OwnLines(txn[s].doc, w)
    BY <1>1 DEF RefsOwn
  <1>4. /\ Net(g) \in Int /\ Net(h) \in Int
        /\ txn[s].doc \notin Transfers => Net(g) = Net(h) + (level'[l] - level[l])
    BY PublishNet
  <1>5. level[l] \in Int /\ level'[l] \in Int
    <2>1. level'[l] = View(s, l)
      BY DEF Published, Publish
    <2>2. View(s, l) \in Int
      BY <1>1, TypedView
    <2> QED BY <1>1, <2>1, <2>2 DEF TypeOK
  <1> HIDE DEF h, w, g
  <1>6. /\ Len(h) \in Nat /\ DOMAIN h = 1 .. Len(h) /\ DOMAIN h \subseteq DOMAIN g
        /\ \A n \in DOMAIN h : g[n] = h[n]
        /\ \A n \in DOMAIN g \ DOMAIN h : n - Len(h) \in DOMAIN w /\ g[n] = w[n - Len(h)]
        /\ g \in Seq(Movement) /\ \A n \in DOMAIN g : g[n].qty \in Int
    <2>1. /\ Len(h) \in Nat /\ Len(w) \in Nat /\ Len(h \o w) = Len(h) + Len(w)
          /\ DOMAIN h = 1 .. Len(h) /\ DOMAIN w = 1 .. Len(w)
          /\ DOMAIN (h \o w) = 1 .. Len(h) + Len(w)
          /\ \A n \in 1 .. Len(h) : (h \o w)[n] = h[n]
          /\ \A n \in Len(h) + 1 .. Len(h) + Len(w) : (h \o w)[n] = w[n - Len(h)]
          /\ h \o w \in Seq(Movement)
      BY <1>2
    <2>2. \A n \in DOMAIN (h \o w) : (h \o w)[n] \in Movement
      BY <2>1
    <2>3. \A n \in DOMAIN g : g[n].qty \in Int
      BY <1>2, <2>2 DEF Movement
    <2>4. \A n \in DOMAIN g \ DOMAIN h : n - Len(h) \in DOMAIN w /\ g[n] = w[n - Len(h)]
      BY <1>2, <2>1
    <2>5. DOMAIN h \subseteq DOMAIN g
      BY <1>2, <2>1
    <2> QED BY <1>2, <2>1, <2>3, <2>4, <2>5
  <1>7. \A n \in DOMAIN g \ DOMAIN h : g[n].ref.doc = txn[s].doc
    BY <1>3, <1>6 DEF OwnLines
  <1>8. ASSUME txn[s].doc # c
        PROVE  MovesFor(g, c) = MovesFor(h, c) /\ NetFor(g, c) = NetFor(h, c)
    <2>1. MovesFor(g, c) = MovesFor(h, c)
      BY <1>6, <1>7, <1>8 DEF MovesFor
    <2>2. \A n \in MovesFor(h, c) : Quantities(g)[n] = Quantities(h)[n]
      BY <1>6 DEF MovesFor, Quantities
    <2>3. IsFiniteSet(MovesFor(h, c))
      <3>1. PICK n \in Nat : n = Len(h)
        BY <1>6
      <3>2. IsFiniteSet(1 .. n) /\ MovesFor(h, c) \subseteq 1 .. n
        BY <1>6, <3>1, FS_Interval DEF MovesFor
      <3> QED BY <3>2, FS_Subset
    <2>4. SumOf(Quantities(g), MovesFor(h, c)) = SumOf(Quantities(h), MovesFor(h, c))
      BY <2>2, <2>3, SumSame
    <2> QED BY <2>1, <2>4 DEF NetFor
  <1>9. ASSUME txn[s].doc = c, MovesFor(h, c) = {}
        PROVE  NetFor(g, c) = level'[l] - level[l]
    <2>1. c \notin Transfers
      BY DocSets
    <2>2. \A n \in DOMAIN h : h[n].ref.doc # c
      BY <1>9 DEF MovesFor
    <2>3. OtherMoves(g) = OtherMoves(h) \cup MovesFor(g, c) /\ OtherMoves(h) \cap MovesFor(g, c) = {}
      BY <1>6, <1>7, <1>9, <2>1, <2>2 DEF OtherMoves, MovesFor
    <2>4. IsFiniteSet(OtherMoves(h)) /\ IsFiniteSet(OtherMoves(g))
      BY <1>2, <1>6, NetFacts
    <2>5. IsFiniteSet(MovesFor(g, c))
      BY <2>3, <2>4, FS_Subset
    <2>6. \A n \in OtherMoves(h) \cup MovesFor(g, c) : Quantities(g)[n] \in Int
      BY <1>6 DEF OtherMoves, MovesFor, Quantities
    <2>7. SumOf(Quantities(g), OtherMoves(h) \cup MovesFor(g, c)) =
             SumOf(Quantities(g), OtherMoves(h)) + SumOf(Quantities(g), MovesFor(g, c))
      BY <2>3, <2>4, <2>5, <2>6, SumUnion
    <2>8. SumOf(Quantities(g), OtherMoves(h)) = Net(h)
      <3>1. \A n \in OtherMoves(h) : Quantities(g)[n] = Quantities(h)[n]
        BY <1>6 DEF OtherMoves, Quantities
      <3> QED BY <2>4, <3>1, SumSame DEF Net
    <2>9. Net(g) = Net(h) + NetFor(g, c)
      BY <2>3, <2>7, <2>8 DEF Net, NetFor
    <2>10. NetFor(g, c) \in Int
      BY <2>5, <2>6, SumType DEF NetFor
    <2>11. Net(g) = Net(h) + (level'[l] - level[l])
      BY <1>4, <1>9, <2>1
    <2>12. PICK u \in Int, v \in Int, d \in Int :
              u = Net(h) /\ v = NetFor(g, c) /\ d = level'[l] - level[l]
      BY <1>4, <1>5, <2>10
    <2>13. u + v = u + d
      BY <2>9, <2>11, <2>12
    <2>14. v = d
      BY <2>13
    <2> QED BY <2>12, <2>14
  <1> QED BY <1>8, <1>9 DEF g, h

LEMMA CountsToldKept ==
    ASSUME CountsInv, CountsAlone, [Next]_vars
    PROVE  CountsTold'
  <1>1. /\ CountingStep /\ DocsInv /\ DocTypes /\ RequestsFit /\ TypeOK
        /\ PendingNet /\ CountingHalfDone /\ FormsOpen /\ CountsTold
    BY CountingSteps DEF CountsInv, DocsInv, OversellInv, LedgerInv
  <1> SUFFICES ASSUME NEW c \in Counts, NEW l \in Loc
               PROVE  IF StatusOf(count'[c]) = "approved"
                      THEN NetFor(hist'[l], c) = Tally(count'[c], l)
                      ELSE MovesFor(hist'[l], c) = {}
    BY DEF CountsTold, NetFor, Quantities, MovesFor, Tally, Differing, Variance, StatusOf
  <1> DEFINE Good == IF StatusOf(count'[c]) = "approved"
                     THEN NetFor(hist'[l], c) = Tally(count'[c], l)
                     ELSE MovesFor(hist'[l], c) = {}
  <1>2. IF StatusOf(count[c]) = "approved" THEN NetFor(hist[l], c) = Tally(count[c], l)
                                           ELSE MovesFor(hist[l], c) = {}
    BY <1>1 DEF CountsTold
  <1>3. ASSUME hist' = hist, count'[c] = count[c]
        PROVE  Good
    BY <1>2, <1>3
  <1>4. ASSUME NEW d \in Counts, CountWritten(d)
        PROVE  Good
    <2>1. hist' = hist
      BY <1>4 DEF CountWritten
    <2>2. CASE d # c
      <3>1. count'[c] = count[c]
        BY <1>4, <2>2 DEF CountWritten
      <3> QED BY <1>3, <2>1, <3>1
    <2>3. CASE d = c
      <3>1. StatusOf(count[c]) # "approved" /\ StatusOf(count'[c]) # "approved"
        BY <1>1, <1>4, <2>3 DEF CountWritten, FormsOpen, StatusOf
      <3> QED BY <1>2, <2>1, <3>1
    <2> QED BY <2>2, <2>3
  <1>5. ASSUME NEW s \in Sessions, Published(s), txn[s].doc # c, count'[c] = count[c]
        PROVE  Good
    <2>1. /\ MovesFor(hist'[l], c) = MovesFor(hist[l], c)
          /\ NetFor(hist'[l], c) = NetFor(hist[l], c)
      BY <1>1, <1>5, PublishFor
    <2> QED BY <1>2, <1>5, <2>1
  <1>6. ASSUME NEW s \in Sessions, CommitCount(s)
        PROVE  Good
    <2>1. /\ Published(s) /\ Publish(s) /\ txn[s].op = "count"
          /\ count' = [count EXCEPT ![txn[s].doc].status = "approved"]
      BY <1>1, <1>6, CorrectionEnds DEF CommitCount
    <2>2. CASE txn[s].doc # c
      <3>1. count'[c] = count[c]
        BY <1>1, <2>1, <2>2 DEF DocTypes
      <3> QED BY <1>5, <2>1, <2>2, <3>1
    <2>3. CASE txn[s].doc = c
      <3>1. StatusOf(count[c]) = "open" /\ count[c] \in Count
        BY <1>1, <2>1, <2>3 DEF CountingHalfDone, StatusOf, DocTypes
      <3>2. PICK k : k = [count[c] EXCEPT !.status = "approved"]
        OBVIOUS
      <3>3. /\ k \in Count /\ k.status = "approved" /\ k.wh = count[c].wh
            /\ k.counted = count[c].counted /\ k.expected = count[c].expected
        BY <3>1, <3>2 DEF Count
      <3>4. count' = [count EXCEPT ![c] = k]
        BY <2>1, <2>3, <3>2
      <3>5. count'[c] = k
        BY <1>1, <3>4 DEF DocTypes
      <3>6. StatusOf(count'[c]) = "approved"
        BY <3>3, <3>5, DocSets DEF StatusOf
      <3>7. Tally(k, l) = Tally(count[c], l)
        BY <3>3 DEF Tally, Differing, Variance
      <3>8. PICK p \in Seq(Line), n \in Nat : Tallies(p, count[c]) /\ Progress(s, p, n)
        BY <1>1, <2>1, <2>3 DEF CountingHalfDone
      <3>9. View(s, l) = level[l] + Moved(p, l, Len(p))
        BY <1>1, <2>1, <3>8, WholeWork
      <3>10. Moved(p, l, Len(p)) = Tally(count[c], l)
        BY <3>8 DEF Tallies
      <3>11. Moved(p, l, Len(p)) \in Int
        <4>1. Len(p) \in 0 .. Len(p)
          BY PlanTyped
        <4> QED BY <4>1, MovedFacts
      <3>12. level'[l] = View(s, l) /\ level[l] \in Int
        BY <1>1, <2>1 DEF Publish, TypeOK
      <3>13. MovesFor(hist[l], c) = {}
        BY <1>2, <3>1
      <3>14. NetFor(hist'[l], c) = level'[l] - level[l]
        BY <1>1, <2>1, <2>3, <3>13, PublishFor
      <3>15. NetFor(hist'[l], c) = Tally(count'[c], l)
        BY <3>5, <3>7, <3>9, <3>10, <3>11, <3>12, <3>14
      <3> QED BY <3>6, <3>15
    <2> QED BY <2>2, <2>3
  <1>7. ASSUME NEW s \in Sessions, PublishedNoCount(s)
        PROVE  Good
    <2>1. Published(s) /\ count' = count /\ txn[s].op # "count"
      BY <1>7 DEF PublishedNoCount
    <2>2. txn[s].doc # c
      BY <1>1, <2>1, CountFacts
    <2> QED BY <1>5, <2>1, <2>2
  <1>8. ASSUME NEW s \in Sessions, ApproveCount(s)
        PROVE  Good
    <2>1. count' = count
      BY <1>8 DEF ApproveCount
    <2>2. PICK d, lines : Begin(s, "count", d, lines, {})
      BY <1>8 DEF ApproveCount
    <2>3. hist' = hist
      BY <2>2 DEF Begin
    <2> QED BY <1>3, <2>1, <2>3
  <1>9. CASE CountingQuiet
    BY <1>3, <1>9 DEF CountingQuiet
  <1> QED BY <1>1, <1>4, <1>6, <1>7, <1>8, <1>9 DEF CountingStep

LEMMA InitCountsInv ==
    ASSUME Init PROVE CountsInv
  <1>1. DocsInv /\ PendingNet /\ TypeOK
    BY InitDocsInv, InitTransfersInv DEF TransfersInv, DocsInv, OversellInv, LedgerInv
  <1>2. CountingHalfDone
    BY DEF Init, InitLedger, Idle, CountingHalfDone
  <1>3. FormsOpen
    BY DEF Init, FormsOpen
  <1>4. ASSUME NEW c \in Counts, NEW l \in Loc
        PROVE  MovesFor(hist[l], c) = {} /\ StatusOf(count[c]) # "approved"
    <2>1. ASSUME NEW n \in DOMAIN hist[l], hist[l][n].ref.doc = c PROVE FALSE
      <3>1. hist[l] = LegacyHistory(l)
        BY DEF Init, InitLedger
      <3>2. hist[l][n].ref = Direct
        BY <3>1, LegacyFacts
      <3> QED BY <2>1, <3>2, DocSets DEF Direct
    <2> QED BY <2>1 DEF MovesFor, Init, StatusOf
  <1>5. CountsTold
    BY <1>4 DEF CountsTold
  <1> QED BY <1>1, <1>2, <1>3, <1>5 DEF CountsInv


\* The share of a document in a history, as the property adds it up.
LEMMA ForIsSum ==
    ASSUME NEW l, hist[l] \in Seq(Movement), NEW d
    PROVE  Sum(MovesFor(hist[l], d), LAMBDA n : hist[l][n].qty) = NetFor(hist[l], d)
  <1> DEFINE S == MovesFor(hist[l], d)
             f == Quantities(hist[l])
             Fold(g) == g = [s \in SUBSET S |->
                               IF s = {} THEN 0
                               ELSE hist[l][Pick(s)].qty + g[s \ {Pick(s)}]]
             h == CHOOSE g : Fold(g)
  <1>1. Sum(S, LAMBDA n : hist[l][n].qty) = h[S]
    BY DEF Sum, MapThenSumSet, MapThenFoldSet, Pick
  <1>2. ASSUME NEW s \in SUBSET S, s # {} PROVE f[Pick(s)] = hist[l][Pick(s)].qty
    <2>1. Pick(s) \in S
      BY <1>2 DEF Pick
    <2> QED BY <2>1 DEF Quantities, MovesFor
  <1>3. \A g : Fold(g) <=> IsSum(f, S, g)
    BY <1>2 DEF IsSum
  <1>4. IsFiniteSet(S) /\ \A n \in S : f[n] \in Int
    <2>1. DOMAIN hist[l] = 1 .. Len(hist[l]) /\ \A n \in DOMAIN hist[l] : hist[l][n] \in Movement
      OBVIOUS
    <2>2. PICK n \in Nat : n = Len(hist[l])
      OBVIOUS
    <2>3. IsFiniteSet(1 .. n) /\ S \subseteq 1 .. n
      BY <2>1, <2>2, FS_Interval DEF MovesFor
    <2>4. IsFiniteSet(S)
      BY <2>3, FS_Subset
    <2>5. \A k \in S : f[k] \in Int
      BY <2>1 DEF MovesFor, Quantities, Movement
    <2> QED BY <2>4, <2>5
  <1>5. IsSum(f, S, PartialSums(f, S))
    BY <1>4, SumExists
  <1>6. IsSum(f, S, h)
    BY <1>3, <1>5
  <1> HIDE DEF f, h, S
  <1>7. h[S] = PartialSums(f, S)[S]
    BY <1>4, <1>5, <1>6, SumIsUnique
  <1>8. SumOf(f, S) = PartialSums(f, S)[S]
    BY SumIsFold
  <1> QED BY <1>1, <1>7, <1>8 DEF f, S, NetFor

\* The differences that approved counts show are the differences that were posted,
\* and the adjustments are in the ledger as their statuses say, however
\* record_movement interleaves the requests: as long as nobody saves quantities of
\* a count, or approves it, while another request is at the same count.
THEOREM CorrectionsReachTheLedger == DocSpec /\ []CountsAlone => []CorrectionsAddUp
  <1>1. Init => CountsInv
    BY InitCountsInv
  <1>2. CountsInv /\ CountsAlone /\ [Next]_vars => CountsInv'
    BY DocSteps, PendingNetKept, CountingHalfDoneKept, FormsOpenKept, CountsToldKept
       DEF CountsInv
  <1>3. ASSUME CountsInv PROVE ApprovedVarianceInLedger
    <2> SUFFICES ASSUME NEW c \in Counts, StatusOf(count[c]) = "approved",
                        NEW i \in DOMAIN count[c].counted
                 PROVE  Sum(MovesFor(hist[<<count[c].wh, i>>], c),
                            LAMBDA n : hist[<<count[c].wh, i>>][n].qty) = Variance(count[c], i)
      BY DEF ApprovedVarianceInLedger, MovesFor
    <2> DEFINE l == <<count[c].wh, i>>
    <2>1. TypeOK /\ DocTypes /\ CountsTold
      BY <1>3 DEF CountsInv, DocsInv, OversellInv, LedgerInv
    <2>2. count[c] \in Count
      BY <2>1 DEF StatusOf, DocTypes
    <2>3. l \in Loc
      <3>1. count[c].wh \in Warehouses /\ count[c].counted \in Sheet
        BY <2>2 DEF Count
      <3>2. i \in Items
        BY <3>1, SheetFacts DEF Sheet
      <3> QED BY <3>1, <3>2 DEF Loc
    <2>4. NetFor(hist[l], c) = Tally(count[c], l)
      BY <2>1, <2>3 DEF CountsTold
    <2>5. Tally(count[c], l) = Variance(count[c], i)
      BY DEF Tally, Differing
    <2>6. hist[l] \in Seq(Movement)
      BY <2>1, <2>3 DEF TypeOK
    <2>7. Sum(MovesFor(hist[l], c), LAMBDA n : hist[l][n].qty) = NetFor(hist[l], c)
      BY <2>6, ForIsSum
    <2> QED BY <2>4, <2>5, <2>7
  <1>4. CountsInv /\ AdjustmentMatchesLedger => CorrectionsAddUp
    BY <1>3 DEF CorrectionsAddUp
  <1> QED BY <1>1, <1>2, <1>4, AdjustmentsInTheLedger, PTL DEF DocSpec
=============================================================================
