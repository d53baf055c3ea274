------------------------------ MODULE Workshop ------------------------------
(***************************************************************************)
(* Workshop orders, the production that employees record on them, and      *)
(* alterations: apps/wms_orders, wms_production and wms_alterations.  An   *)
(* order has a number of pieces, and no operation may be recorded on more  *)
(* pieces than that, whoever records, corrects or recounts.                *)
(***************************************************************************)
EXTENDS Workforce

CONSTANTS
    Orders,         \* workshop orders
    WorkDays,           \* working days
    Alterations,    \* alterations
    Pieces,         \* bound: pieces of an order and of a line
    MaxLines,       \* bound: lines of an entry
    Legacy          \* orders from before pieces were counted

ASSUME WorkshopConstants ==
    /\ Pieces \subseteq Nat \ {0}
    /\ MaxLines \in Nat
    /\ Legacy \subseteq Orders
    /\ Orders \cup Alterations \cup (Staff \X WorkDays) \subseteq Lockable

VARIABLES
    order,          \* WmsWorkshopOrder, or None
    entry,          \* WmsProductionEntry of an employee and a day: its lines, or None
    alteration      \* WmsAlteration, or None

productionVars == <<order, entry>>
workshopVars == <<webVars, staffVars, productionVars, alteration>>

\* A count of 0 stands for an order from before pieces were counted.
Order == [status : {"in process", "finished"}, pieces : Nat]
ProductionLine == [order : Orders, op : Ops, qty : Nat, gone : BOOLEAN]
Alteration == [status : {"open", "in progress", "completed"}, completed : BOOLEAN]

Entries == Staff \X WorkDays

\* One line was recorded on each order that has no count.
WorkshopInit ==
    /\ WorkforceInit
    /\ order = [o \in Orders |-> IF o \in Legacy THEN [status |-> "in process", pieces |-> 0]
                                 ELSE None]
    /\ \E n \in Entries, c \in Ops, q \in Pieces :
          entry = [x \in Entries |->
                      IF x = n /\ Legacy # {}
                      THEN SetToSeq({[order |-> o, op |-> c, qty |-> q, gone |-> FALSE] :
                                       o \in Legacy})
                      ELSE None]
    /\ alteration = [a \in Alterations |-> None]

Recorded == {n \in Entries : entry[n] # None}
KnownOrders == {o \in Orders : order[o] # None}

\* A line that is removed keeps its place, by which it is known.
Left(lines) == {i \in DOMAIN lines : ~lines[i].gone}
QtyOn(lines, o, c) ==
    SumFunctionOnSet([i \in DOMAIN lines |-> lines[i].qty],
                     {i \in Left(lines) : lines[i].order = o /\ lines[i].op = c})
QtyOf(lines, o) == MapThenSumSet(LAMBDA c : QtyOn(lines, o, c), Ops)

\* Sum("quantity") over the lines of some entries that are not removed.
DoneIn(entries, o, c) == MapThenSumSet(LAMBDA n : QtyOn(entry[n], o, c), entries)
Done(o, c) == DoneIn(Recorded, o, c)

-----------------------------------------------------------------------------
(* Requests and their locks                                                *)

Ask1(s, q, rows) ==
    Begin(s, [stage |-> 1] @@ q, rows) /\ UNCHANGED <<staffVars, productionVars, alteration>>

RequestOrders(s) == \E O \in SUBSET Orders \ {{}}, n \in Pieces :
    Ask1(s, [op |-> "receive", of |-> O, pieces |-> n],
         << Loc >> \o InOrder(O \cap KnownOrders))

RequestCount(s) == \E o \in KnownOrders, n \in Pieces :
    Ask1(s, [op |-> "count", of |-> o, pieces |-> n], << o, Loc >>)

\* The orders of a batch are locked in no particular order.
RequestFinish(s) == \E O \in SUBSET KnownOrders \ {{}} : \E rows \in SetToAllKPermutations(O) :
    /\ Len(rows) = Cardinality(O)
    /\ Ask1(s, [op |-> "finish", of |-> O], rows \o << Loc >>)

RowChoices == [order : KnownOrders, op : Ops, qty : Pieces, gone : {FALSE}]

RowsOf(lines) == LET orders == {lines[i].order : i \in Left(lines)} IN InOrder(orders)
OpsOf(e, lines) ==
    LET ops == {lines[i].op : i \in Left(lines)}
    IN  InOrder({<<e, c>> : c \in ops}) \o InOrder(ops)

RequestEntry(s) == \E n \in Entries, lines \in SeqOf(RowChoices, MaxLines) \ {<<>>} :
    Ask1(s, [op |-> "record", of |-> n, lines |-> lines],
         << n[1], Loc >> \o RowsOf(lines) \o OpsOf(n[1], lines))

\* The form of a correction holds the lines of the entry as the page showed
\* them: one of them is changed or taken out, or a new one is added.
Corrections(lines) ==
    {[lines EXCEPT ![i] = l] : i \in Left(lines), l \in RowChoices}
    \cup {[lines EXCEPT ![i].gone = TRUE] : i \in Left(lines)}
    \cup {Append(lines, l) : l \in RowChoices}

RequestCorrection(s) == \E n \in Recorded : \E rows \in Corrections(entry[n]) :
    /\ Len(rows) <= MaxLines /\ Left(rows) # {}
    /\ Ask1(s, [op |-> "correct", of |-> n, rows |-> rows, shown |-> Left(entry[n]),
                added |-> DOMAIN rows \ DOMAIN entry[n]],
            << n, n[1], Loc >>)

\* The other way of correcting changes quantities alone, and may set them to 0.
RequestQuantities(s) == \E n \in Recorded : \E i \in Left(entry[n]), q \in Pieces \cup {0} :
    Ask1(s, [op |-> "quantities", of |-> n, row |-> i, qty |-> q, shown |-> Left(entry[n])],
         << n, n[1], Loc >>)

RequestAlteration(s) == \E a \in Alterations, e \in Staff, to \in {"open", "in progress"} :
    IF alteration[a] = None
    THEN Ask1(s, [op |-> "alter", of |-> a, who |-> e, to |-> "open"], << Loc, e >>)
    ELSE /\ alteration[a].status = "in progress" => to = "in progress"
         /\ Ask1(s, [op |-> "amend", of |-> a, who |-> e,
                     to |-> IF alteration[a].status = "completed" THEN "completed" ELSE to],
                 << a, Loc, e >>)

RequestComplete(s) == \E a \in Alterations :
    /\ alteration[a] # None
    /\ Ask1(s, [op |-> "complete", of |-> a], << a, Loc >>)

WorkRow(row) ==
    CASE row \in Orders -> order[row]
      [] row \in Entries -> entry[row]
      [] row \in Alterations -> alteration[row]
      [] OTHER -> StaffRow(row)

LockWork(s) ==
    ReadLocked(s, WorkRow) /\ UNCHANGED <<staffVars, productionVars, alteration>>

\* A correction locks the lines of the entry with their orders and
\* assignments, and then those of the form.
LockLines(s) ==
    /\ Ready(s) /\ req[s].stage = 1 /\ req[s].op \in {"correct", "quantities"}
    /\ req' = [req EXCEPT ![s].stage = 2]
    /\ LET q == req[s]
           now == seen[s][q.of]
           new == IF q.op = "correct" THEN q.rows ELSE now
       IN  Ask(s, RowsOf(now) \o OpsOf(q.of[1], now) \o RowsOf(new) \o OpsOf(q.of[1], new))
    /\ UNCHANGED <<seen, staffVars, productionVars, alteration>>

-----------------------------------------------------------------------------
(* What is refused                                                         *)

\* Only orders in process with a count receive new production.
Receives(s, o) == seen[s][o].status = "in process" /\ seen[s][o].pieces > 0
CanDo(s, e, c) == LET a == seen[s][<<e, c>>] IN a # None /\ a.active /\ seen[s][c]

\* No order and operation twice in a record.
NoDouble(lines) ==
    \A i, j \in Left(lines) :
        lines[i].order = lines[j].order /\ lines[i].op = lines[j].op => i = j

CapOfNew(s, lines) == \A i \in DOMAIN lines :
    LET l == lines[i]
    IN  Done(l.order, l.op) + QtyOn(lines, l.order, l.op) <= seen[s][l.order].pieces

\* Of an order without a count there may not be more than there was.
SomethingShrinks(old, lines, o, c) ==
    \/ QtyOn(lines, o, c) <= QtyOn(old, o, c)
    \/ \E d \in Ops : QtyOn(lines, o, d) < QtyOn(old, o, d)
Shrinks(old, lines, o, c) ==
    \/ QtyOn(lines, o, c) <= QtyOn(old, o, c)
    \/ QtyOf(lines, o) <= QtyOf(old, o)

CapOfEntry(s, n, old, lines) == \A i \in Left(lines) :
    LET l == lines[i]
    IN  IF seen[s][l.order].pieces = 0 THEN Shrinks(old, lines, l.order, l.op)
        ELSE QtyOn(lines, l.order, l.op) <= seen[s][l.order].pieces
CapOfCorrected(s, n, old, lines) == \A i \in Left(lines) :
    LET l == lines[i]
    IN  IF seen[s][l.order].pieces = 0 THEN Shrinks(old, lines, l.order, l.op)
        ELSE DoneIn(Recorded \ {n}, l.order, l.op) + QtyOn(lines, l.order, l.op)
                <= seen[s][l.order].pieces

\* A row of the form that is new, or moved to another order or operation, is
\* checked like new production; others are left as they are.
RowStands(s, e, was, row) ==
    /\ row.qty > 0
    /\ was = None \/ was.order # row.order => Receives(s, row.order)
    /\ was = None \/ was.op # row.op => CanDo(s, e, row.op)

-----------------------------------------------------------------------------
(* Commits                                                                 *)

Commit(s, op) == Ready(s) /\ req[s].op = op /\ End(s) /\ UNCHANGED staffVars

\* WmsWorkshopOrder.clean: an order is finished for good, and a new count leaves
\* room for everything that was recorded.
OrderCleans(o, was, new) ==
    /\ was = None => new.status = "in process" /\ new.pieces > 0
    /\ was # None /\ was.status = "finished" => new.status = "finished"
    /\ was # None /\ new.pieces # was.pieces =>
          new.pieces > 0 /\ \A c \in Ops : Done(o, c) <= new.pieces

SaveOrders(rows) ==
    /\ \A o \in DOMAIN rows : OrderCleans(o, order[o], rows[o])
    /\ order' = rows @@ order

CreateOrderBatch(s) ==
    /\ Commit(s, "receive")
    /\ req[s].of \cap KnownOrders = {}
    /\ SaveOrders([o \in req[s].of |-> [status |-> "in process", pieces |-> req[s].pieces]])
    /\ UNCHANGED <<entry, alteration>>

UpdateOrderPieceCount(s) ==
    /\ Commit(s, "count")
    /\ LET o == req[s].of
       IN  /\ seen[s][o].status = "in process"
           /\ SaveOrders([x \in {o} |-> [seen[s][o] EXCEPT !.pieces = req[s].pieces]])
    /\ UNCHANGED <<entry, alteration>>

FinishOrderBatch(s) ==
    /\ Commit(s, "finish")
    /\ \A o \in req[s].of : seen[s][o].status = "in process"
    /\ SaveOrders([o \in req[s].of |-> [seen[s][o] EXCEPT !.status = "finished"]])
    /\ UNCHANGED <<entry, alteration>>

CreateProductionEntry(s) ==
    /\ Commit(s, "record")
    /\ LET n == req[s].of
           lines == req[s].lines
       IN  /\ seen[s][n[1]].active
           /\ \A i \in DOMAIN lines : /\ Receives(s, lines[i].order)
                                      /\ CanDo(s, n[1], lines[i].op)
           /\ NoDouble(lines) /\ CapOfNew(s, lines)
           /\ entry[n] = None
           /\ entry' = [entry EXCEPT ![n] = lines]
    /\ UNCHANGED <<order, alteration>>

\* A row of a line that is not there any more is refused; a line that the form
\* does not hold is removed, also one that was added meanwhile.
Corrected(old, q) ==
    LET rows == q.rows
    IN  [i \in DOMAIN old |->
            IF i \in q.shown THEN rows[i] ELSE [old[i] EXCEPT !.gone = TRUE]]
        \o SetToSeq({rows[i] : i \in q.added})

CorrectProductionEntry(s) ==
    /\ Commit(s, "correct")
    /\ req[s].stage = 2
    /\ LET n == req[s].of
           q == req[s]
           old == seen[s][n]
           lines == Corrected(old, q)
       IN  /\ Len(lines) <= MaxLines
           /\ \A i \in q.shown : ~q.rows[i].gone => ~old[i].gone
           /\ \A i \in Left(lines) :
                 RowStands(s, n[1], IF i \in DOMAIN old THEN old[i] ELSE None, lines[i])
           /\ NoDouble(lines) /\ CapOfCorrected(s, n, old, lines)
           /\ entry' = [entry EXCEPT ![n] = lines]
    /\ UNCHANGED <<order, alteration>>

CorrectQuantities(s) ==
    /\ Commit(s, "quantities")
    /\ req[s].stage = 2
    /\ LET n == req[s].of
           old == seen[s][n]
           lines == [old EXCEPT ![req[s].row].qty = req[s].qty]
       IN  /\ Left(old) = req[s].shown
           /\ CapOfCorrected(s, n, old, lines)
           /\ entry' = [entry EXCEPT ![n] = lines]
    /\ UNCHANGED <<order, alteration>>

\* The employee who does it has to be active, now and when it is corrected.
Takes(s, e) == seen[s][e].active

CreateAlteration(s) ==
    /\ Commit(s, "alter")
    /\ alteration[req[s].of] = None
    /\ Takes(s, req[s].who)
    /\ alteration' = [alteration EXCEPT ![req[s].of] = [status |-> "open", completed |-> FALSE]]
    /\ UNCHANGED productionVars

\* WmsAlteration.clean: from open to in progress to completed.
Moves(from, to) ==
    <<from, to>> \in {<<"open", "open">>, <<"open", "in progress">>,
                      <<"in progress", "in progress">>, <<"completed", "completed">>}

CorrectAlteration(s) ==
    /\ Commit(s, "amend")
    /\ LET a == req[s].of
       IN  /\ Moves(seen[s][a].status, req[s].to)
           /\ Takes(s, req[s].who)
           /\ alteration' = [alteration EXCEPT ![a].status = req[s].to]
    /\ UNCHANGED productionVars

CompleteAlteration(s) ==
    /\ Commit(s, "complete")
    /\ seen[s][req[s].of].status = "in progress"
    /\ alteration' = [alteration EXCEPT ![req[s].of] =
                         [status |-> "completed", completed |-> TRUE]]
    /\ UNCHANGED productionVars

AbandonWork(s) == RollBack(s) /\ UNCHANGED <<staffVars, productionVars, alteration>>

RequestWork(s) ==
    \/ RequestOrders(s) \/ RequestCount(s) \/ RequestFinish(s)
    \/ RequestEntry(s) \/ RequestCorrection(s) \/ RequestQuantities(s)
RequestRepair(s) == RequestAlteration(s) \/ RequestComplete(s)

CommitWork(s) ==
    \/ CreateOrderBatch(s) \/ UpdateOrderPieceCount(s) \/ FinishOrderBatch(s)
    \/ CreateProductionEntry(s)
    \/ LockLines(s) \/ CorrectProductionEntry(s) \/ CorrectQuantities(s)
CommitRepair(s) == CreateAlteration(s) \/ CorrectAlteration(s) \/ CompleteAlteration(s)

-----------------------------------------------------------------------------
(* Properties                                                              *)

\* "Transactional linked-order production mutations with cumulative PCS caps":
\* no operation is recorded on more pieces than the order has, over all
\* entries of all employees, and no record holds an operation of an order twice.
WithinPieces ==
    /\ \A o \in KnownOrders, c \in Ops : order[o].pieces > 0 => Done(o, c) <= order[o].pieces
    /\ \A n \in Recorded : NoDouble(entry[n])

\* Production of an order without a count never grows, whichever form corrects
\* it and however its operations are shifted.
UncountedOnlyShrinks ==
    [][\A o \in KnownOrders : order[o].pieces = 0 =>
          MapThenSumSet(LAMBDA n : IF entry'[n] = None THEN 0 ELSE QtyOf(entry'[n], o), Entries)
          <= MapThenSumSet(LAMBDA n : QtyOf(entry[n], o), Recorded)]_entry
=============================================================================
