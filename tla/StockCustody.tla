----------------------------- MODULE StockCustody -----------------------------
(***************************************************************************)
(* What a stock transfer promises, without rows, sessions or locks: the    *)
(* goods of a transfer leave the source all at once, are in nobody's stock *)
(* while they travel, and then either arrive all at once or go back.  What *)
(* other documents do to stock is free, but never in the same step.        *)
(***************************************************************************)
EXTENDS Integers, FiniteSetsExt

CONSTANTS Warehouses, Items, Transfers, NoDoc,
          Drafts    \* the transfers that may be requested, in status draft

VARIABLES onHand,   \* stock per warehouse and item
          doc       \* the transfers: from, to, rows and status

custodyVars == <<onHand, doc>>

\* How much of an item the transfer carries.
Carries(t, i) == MapThenSumSet(LAMBDA k : IF doc[t].rows[k].item = i
                                          THEN doc[t].rows[k].qty ELSE 0,
                               DOMAIN doc[t].rows)

Status(t) == IF doc[t] = NoDoc THEN "none" ELSE doc[t].status

\* The goods of t are added, sign times, to warehouse w and nothing else moves.
Shift(t, w, sign) ==
    onHand' = [l \in Warehouses \X Items |->
                 IF l[1] = w THEN onHand[l] + sign * Carries(t, l[2]) ELSE onHand[l]]

Becomes(t, status) == doc' = [doc EXCEPT ![t].status = status]

Draft(t) == /\ Status(t) = "none"
            /\ \E d \in Drafts : d.from # d.to /\ doc' = [doc EXCEPT ![t] = d]
            /\ UNCHANGED onHand
Withdraw(t) == Status(t) = "draft" /\ Becomes(t, "cancelled") /\ UNCHANGED onHand
Ship(t) == Status(t) = "draft" /\ Becomes(t, "dispatched") /\ Shift(t, doc[t].from, -1)
Deliver(t) == Status(t) = "dispatched" /\ Becomes(t, "received") /\ Shift(t, doc[t].to, 1)
Return(t) == Status(t) = "dispatched" /\ Becomes(t, "cancelled") /\ Shift(t, doc[t].from, 1)
Other == UNCHANGED doc

CustodyInit == doc = [t \in Transfers |-> NoDoc]

CustodyNext ==
    \/ \E t \in Transfers : Draft(t) \/ Withdraw(t) \/ Ship(t) \/ Deliver(t) \/ Return(t)
    \/ Other

CustodySpec == CustodyInit /\ [][CustodyNext]_custodyVars
=============================================================================
