------------------------------- MODULE Inbound -------------------------------
(***************************************************************************)
(* The inbound flow of one item in one warehouse: a purchase order with    *)
(* one line, the receipts posted against it, the QC events and hold        *)
(* dispositions that decide about the received units, the putaways that    *)
(* move accepted units to the sellable location, the void of a receipt,    *)
(* and the closeout of receipts and of the order.                          *)
(*                                                                         *)
(* Four records of the same units are kept by the code, each written by a  *)
(* statement of its own: the balance of each location, the cost layers at  *)
(* each location, the receipt allocations (where each unit of a receipt    *)
(* is), and the QC and disposition events.  The module keeps the four      *)
(* apart, so that their agreement is something to check.                   *)
(*                                                                         *)
(* A handler that commits one transaction under the receipt-line row lock  *)
(* and the advisory lock of the item is one action.  Two are not: a        *)
(* putaway is checked outside the transaction that inserts it, and the     *)
(* void of a receipt refreshes the order's status after its commit, with   *)
(* one unlocked statement after another.                                   *)
(***************************************************************************)
EXTENDS Integers, FiniteSets, Functions

CONSTANTS
  NumReceipts,   \* receipts 1..NumReceipts, numbered in the order of their cost layers
  Putaways,      \* putaway documents
  Ordered,       \* quantity of the order line
  MaxQty,        \* bound: largest quantity of one receipt, event or putaway
  CountSheets    \* the physical counts that a closeout may carry

Receipts == 1..NumReceipts
Quantities == 1..MaxQty

\* The default locations of the warehouse, by role.
Roles == {"QA", "SELLABLE", "HOLD", "REJECT"}

\* Receipt allocation statuses.  REJECT stands for status HOLD in the bin of
\* the reject location: the code tells the two apart by bin.
Buckets == {"QA", "AVAILABLE", "HOLD", "REJECT", "REWORK", "DISCARDED"}

\* The location that holds the units of an allocation status.
RoleOf(b) ==
  CASE b = "QA" -> "QA"
    [] b = "AVAILABLE" -> "SELLABLE"
    [] b = "HOLD" -> "HOLD"
    [] b \in {"REJECT", "REWORK", "DISCARDED"} -> "REJECT"

\* A physical count at one location, of one allocation status or of any; the
\* status "none" marks a location that is not counted.
Counts == [status : {"QA", "AVAILABLE", "HOLD", "any", "none"}, qty : Nat]

ASSUME InboundAssumption ==
  /\ NumReceipts \in Nat \ {0}
  /\ Ordered \in Nat \ {0}
  /\ MaxQty \in Nat \ {0}
  /\ CountSheets \subseteq [Roles -> Counts]

QcTypes == {"accept", "hold", "reject"}
Dispositions == {"release", "rework", "discard"}

LifeStates == {"none", "QC_PENDING", "QC_COMPLETED", "PUTAWAY_PENDING", "AVAILABLE", "REJECTED"}
PoStatuses == {"approved", "partially_received", "received", "closed", "canceled"}
LineStatuses == {"open", "complete", "closed_short", "cancelled"}

VARIABLES
  status,      \* purchase_order_receipts.status: "none" before the receipt exists
  life,        \* purchase_order_receipts.lifecycle_state
  received,    \* purchase_order_receipt_lines.quantity_received
  qc,          \* sum of the qc_events of each type
  events,      \* number of qc_events
  disposed,    \* sum of the hold_disposition_events of each type
  alloc,       \* receipt_allocations, summed by status
  adjusted,    \* adjustments made by physical counts, by status
  counted,     \* the same adjustments, by location
  closed,      \* the inbound_closeouts row says closed
  layers,      \* remaining quantity of the cost layers at a location, by receipt
  stock,       \* inventory_balance.on_hand of each location
  putaway,     \* putaways with their single line
  moved,       \* sum of quantity_moved over the completed putaway lines
  po, line,    \* purchase_orders.status and purchase_order_lines.status
  refresh      \* the status refresh that follows the void of a receipt

receiptVars == <<status, life, received, closed>>
qcVars == <<qc, events, disposed>>
stockVars == <<layers, stock>>
poVars == <<po, line, refresh>>
vars == <<receiptVars, qcVars, alloc, adjusted, counted, stockVars, putaway, moved, poVars>>

Idle == [pc |-> "idle", seen |-> "approved", next |-> "approved",
         stale |-> "open", line |-> "open"]
NoPutaway == [status |-> "none", receipt |-> 1, qty |-> 0]

Init ==
  /\ status = [r \in Receipts |-> "none"]
  /\ life = [r \in Receipts |-> "none"]
  /\ received = [r \in Receipts |-> 0]
  /\ qc = [r \in Receipts |-> [t \in QcTypes |-> 0]]
  /\ events = [r \in Receipts |-> 0]
  /\ disposed = [r \in Receipts |-> [d \in Dispositions |-> 0]]
  /\ alloc = [r \in Receipts |-> [b \in Buckets |-> 0]]
  /\ adjusted = [r \in Receipts |-> [b \in Buckets |-> 0]]
  /\ counted = [r \in Receipts |-> [l \in Roles |-> 0]]
  /\ closed = [r \in Receipts |-> FALSE]
  /\ layers = [l \in Roles |-> [r \in Receipts |-> 0]]
  /\ stock = [l \in Roles |-> 0]
  /\ putaway = [p \in Putaways |-> NoPutaway]
  /\ moved = [r \in Receipts |-> 0]
  /\ po = "approved"
  /\ line = "open"
  /\ refresh = [r \in Receipts |-> Idle]

-----------------------------------------------------------------------------
(***************************************************************************)
(* Sums, the cost layers taken first-in first-out, and transfers.          *)
(***************************************************************************)

QcTotal(r) == qc[r]["accept"] + qc[r]["hold"] + qc[r]["reject"]
DisposedTotal(d) == d["release"] + d["rework"] + d["discard"]
NetHold(r) == qc[r]["hold"] - DisposedTotal(disposed[r])

LayerTotal(l) == SumFunctionOnSet(layers[l], Receipts)

\* A choice of q units from the layers at location l that takes the older
\* layers first: a layer is touched only when the ones before it are used up.
OldestFirst(l, q, taken) ==
  /\ SumFunctionOnSet(taken, Receipts) = q
  /\ \A r \in Receipts :
       /\ taken[r] <= layers[l][r]
       /\ \A s \in 1..(r - 1) : taken[r] > 0 => taken[s] = layers[l][s]

\* Seeded fault: the balance moves and the layers stay at the source.
TransferUncosted(from, to, q) ==
  /\ stock[from] >= q
  /\ stock' = [stock EXCEPT ![from] = @ - q, ![to] = @ + q]
  /\ UNCHANGED layers

\* A transfer of q units between two locations: enough stock and enough
\* layers at the source, the layers relocated oldest first, both balances
\* changed.
Transfer(from, to, q) ==
  /\ stock[from] >= q
  /\ \E taken \in [Receipts -> 0..q] :
       /\ OldestFirst(from, q, taken)
       /\ layers' = [layers EXCEPT
            ![from] = [r \in Receipts |-> layers[from][r] - taken[r]],
            ![to] = [r \in Receipts |-> layers[to][r] + taken[r]]]
  /\ stock' = [stock EXCEPT ![from] = @ - q, ![to] = @ + q]

\* Move q units of receipt r between two allocation statuses.
MoveAllocation(r, from, to, q) ==
  /\ alloc[r][from] >= q
  /\ alloc' = [alloc EXCEPT ![r][from] = @ - q, ![r][to] = @ + q]

-----------------------------------------------------------------------------
(***************************************************************************)
(* The order's status, derived from its receipts.                          *)
(***************************************************************************)

\* Seeded fault: the voided receipts left out of the sum, while the refresh
\* after a void still writes without a lock.
LineReceivedNet(st, rcv) == SumFunctionOnSet(rcv, {r \in Receipts : st[r] = "posted"})

\* loadLineAggregates sums the receipt lines of every receipt: the condition
\* on voided receipts is on the outer join of the header and drops no line.
LineReceived(st, rcv) == SumFunctionOnSet(rcv, {r \in Receipts : st[r] # "none"})

\* The line's status after the refresh.
DerivedLine(ln, qty) ==
  IF ln \notin {"open", "complete"} THEN ln
  ELSE IF qty >= Ordered THEN "complete" ELSE "open"

\* The order's status after the refresh, from the status it read, the line's
\* resolved status and the quantity received.
DerivedPo(seen, ln, qty) ==
  IF ln = "complete" THEN "received"
  ELSE IF ln # "open" THEN "closed"
  ELSE IF qty > 0 THEN "partially_received"
  ELSE IF seen \in {"partially_received", "received"} THEN "approved" ELSE seen

\* updatePoStatusFromReceipts inside a transaction that has locked the order.
UpdatePoStatusFromReceipts(p, ln, st, rcv) ==
  LET qty == LineReceived(st, rcv)
      resolved == DerivedLine(ln, qty)
  IN /\ line' = IF p = "closed" THEN ln ELSE resolved
     /\ po' = IF p \in {"closed", "canceled"} THEN p ELSE DerivedPo(p, resolved, qty)

-----------------------------------------------------------------------------
(***************************************************************************)
(* Receipts.                                                               *)
(***************************************************************************)

\* The quantity that counts against the order: receipts that are not voided.
NetReceived == SumFunctionOnSet(received, {r \in Receipts : status[r] = "posted"})

\* assertReceiptCanBeCreated: the order and its line are open, and more than
\* the ordered quantity needs an approval.
ReceiptCanBeCreated(q, overApproved) ==
  /\ po \notin {"received", "closed", "canceled"}
  /\ line = "open"
  /\ NetReceived + q > Ordered => overApproved

\* createPurchaseOrderReceipt posts a receipt of q units into QA: the
\* movement, the receipt and its line, the cost layer, the allocations and
\* the order's status commit together.
CreateReceipt(r, q, overApproved) ==
  /\ status[r] = "none"
  /\ ReceiptCanBeCreated(q, overApproved)
  /\ status' = [status EXCEPT ![r] = "posted"]
  /\ life' = [life EXCEPT ![r] = "QC_PENDING"]
  /\ received' = [received EXCEPT ![r] = q]
  /\ alloc' = [alloc EXCEPT ![r]["QA"] = q]
  /\ layers' = [layers EXCEPT !["QA"][r] = q]
  /\ stock' = [stock EXCEPT !["QA"] = @ + q]
  /\ UpdatePoStatusFromReceipts(po, line, status', received')
  /\ UNCHANGED <<closed, qcVars, adjusted, counted, putaway, moved, refresh>>

\* Seeded fault: the void does not look at the receipt's cost layer.
VoidConsumed(r) ==
  /\ status[r] = "posted"
  /\ \A p \in Putaways : ~(putaway[p].status = "completed" /\ putaway[p].receipt = r)
  /\ stock["QA"] >= received[r]
  /\ status' = [status EXCEPT ![r] = "voided"]
  /\ layers' = [layers EXCEPT !["QA"][r] = 0]
  /\ stock' = [stock EXCEPT !["QA"] = @ - received[r]]
  /\ refresh' = [refresh EXCEPT ![r].pc = "due"]
  /\ UNCHANGED <<life, received, closed, qcVars, alloc, adjusted, counted, putaway, moved>>
  /\ UNCHANGED <<po, line>>

\* assertReceiptCostLayersReversible: the receipt's own layer is whole.
CostLayersReversible(r) == layers["QA"][r] = received[r]

\* voidReceipt: the receipt is posted, none of its putaways is, its own cost
\* layer is whole and the balance covers the reversal.  The layer is voided and
\* the stock taken out; the receipt keeps its allocations.  The order's status
\* is left to the refresh that follows the commit.
VoidReceipt(r) ==
  /\ status[r] = "posted"
  /\ \A p \in Putaways : ~(putaway[p].status = "completed" /\ putaway[p].receipt = r)
  /\ CostLayersReversible(r)
  /\ stock["QA"] >= received[r]
  /\ status' = [status EXCEPT ![r] = "voided"]
  /\ layers' = [layers EXCEPT !["QA"][r] = 0]
  /\ stock' = [stock EXCEPT !["QA"] = @ - received[r]]
  /\ refresh' = [refresh EXCEPT ![r].pc = "due"]
  /\ UNCHANGED <<life, received, closed, qcVars, alloc, adjusted, counted, putaway, moved>>
  /\ UNCHANGED <<po, line>>

\* The refresh after a void runs on the pool: it reads the order's status, ...
ReadPoStatus(r) ==
  /\ refresh[r].pc = "due"
  /\ refresh' = [refresh EXCEPT ![r] =
       IF po = "closed" THEN Idle ELSE [@ EXCEPT !.pc = "read", !.seen = po]]
  /\ UNCHANGED <<receiptVars, qcVars, alloc, adjusted, counted, stockVars, putaway, moved>>
  /\ UNCHANGED <<po, line>>

\* ... reads the line with its quantity and derives both statuses, ...
ReadPoLines(r) ==
  /\ refresh[r].pc = "read"
  /\ LET qty == LineReceived(status, received)
         resolved == DerivedLine(line, qty)
     IN refresh' = [refresh EXCEPT ![r] =
          [@ EXCEPT !.pc = "derived", !.stale = line, !.line = resolved,
                    !.next = DerivedPo(refresh[r].seen, resolved, qty)]]
  /\ UNCHANGED <<receiptVars, qcVars, alloc, adjusted, counted, stockVars, putaway, moved>>
  /\ UNCHANGED <<po, line>>

\* ... writes the line if its status is another one, ...
WritePoLine(r) ==
  /\ refresh[r].pc = "derived"
  /\ line' = IF refresh[r].line # refresh[r].stale THEN refresh[r].line ELSE line
  /\ refresh' = [refresh EXCEPT ![r] =
       IF @.seen \in {"canceled", @.next} THEN Idle ELSE [@ EXCEPT !.pc = "write"]]
  /\ UNCHANGED <<receiptVars, qcVars, alloc, adjusted, counted, stockVars, putaway, moved, po>>

\* ... and writes the order's status if it is another one than it read.
WritePoStatus(r) ==
  /\ refresh[r].pc = "write"
  /\ po' = refresh[r].next
  /\ refresh' = [refresh EXCEPT ![r] = Idle]
  /\ UNCHANGED <<receiptVars, qcVars, alloc, adjusted, counted, stockVars, putaway, moved, line>>

-----------------------------------------------------------------------------
(***************************************************************************)
(* Quality control.                                                        *)
(***************************************************************************)

\* Seeded fault: units on hold do not keep the receipt in QC.
EvaluateQcHeld(state, complete, accepted, held, reworked) ==
  IF state # "QC_PENDING" \/ ~complete THEN state
  ELSE IF accepted > 0 \/ reworked > 0 THEN "QC_COMPLETED" ELSE "REJECTED"

\* Seeded fault: only accepted units end the inspection.
EvaluateQcAccepted(state, complete, accepted, held, reworked) ==
  IF state # "QC_PENDING" \/ ~complete \/ held > 0 THEN state
  ELSE IF accepted > 0 THEN "QC_COMPLETED" ELSE state

\* evaluateQcCommand: the lifecycle after a QC event or a disposition.
EvaluateQc(state, complete, accepted, held, reworked) ==
  IF state # "QC_PENDING" \/ ~complete \/ held > 0 THEN state
  ELSE IF accepted > 0 \/ reworked > 0 THEN "QC_COMPLETED" ELSE "REJECTED"

\* What a QC event does to the units: they are still allocated in QA; an accept
\* only classifies them (the layers in QA must cover it), a hold and a reject
\* transfer them.  The documents of the QC lifecycle say that an accept makes the
\* allocations AVAILABLE; in the code only the putaway does.
QcUnits(r, type, q) ==
  \/ /\ type = "accept"
     /\ alloc[r]["QA"] >= q
     /\ LayerTotal("QA") >= q
     /\ UNCHANGED <<alloc, stockVars>>
  \/ /\ type = "hold"
     /\ MoveAllocation(r, "QA", "HOLD", q)
     /\ Transfer("QA", "HOLD", q)
  \/ /\ type = "reject"
     /\ MoveAllocation(r, "QA", "REJECT", q)
     /\ Transfer("QA", "REJECT", q)

\* createQcEvent on a receipt line: no more is decided than was received.  The
\* guard on the lifecycle joins the line to its events before it sums the
\* quantity received, so it counts the line once per event.
QcEvent(r, type, q) ==
  /\ status[r] = "posted"
  /\ QcTotal(r) + q <= received[r]
  /\ QcUnits(r, type, q)
  /\ qc' = [qc EXCEPT ![r][type] = @ + q]
  /\ events' = [events EXCEPT ![r] = @ + 1]
  /\ life' = [life EXCEPT ![r] = EvaluateQc(@,
       received[r] * events'[r] <= QcTotal(r) + q,
       qc'[r]["accept"] + disposed[r]["release"],
       qc'[r]["hold"] - DisposedTotal(disposed[r]),
       disposed[r]["rework"])]
  /\ UNCHANGED <<status, received, closed, disposed, adjusted, counted, putaway, moved, poVars>>

\* Seeded fault: reworked units become available.
DispositionBucketRework(d) ==
  IF d = "discard" THEN "DISCARDED" ELSE "AVAILABLE"

\* The location and the allocation status a disposition leads to.
DispositionBucket(d) ==
  CASE d = "release" -> "AVAILABLE"
    [] d = "rework" -> "REWORK"
    [] d = "discard" -> "DISCARDED"

\* resolveHoldDisposition: q of the units held are released, sent to rework or
\* discarded, and the lifecycle is evaluated again (from the quantity received,
\* summed before the join).
ResolveHoldDisposition(r, d, q) ==
  /\ status[r] = "posted"
  /\ q <= NetHold(r)
  /\ MoveAllocation(r, "HOLD", DispositionBucket(d), q)
  /\ Transfer("HOLD", RoleOf(DispositionBucket(d)), q)
  /\ disposed' = [disposed EXCEPT ![r][d] = @ + q]
  /\ life' = [life EXCEPT ![r] = EvaluateQc(@,
       received[r] <= QcTotal(r),
       qc[r]["accept"] + disposed'[r]["release"],
       qc[r]["hold"] - DisposedTotal(disposed'[r]),
       disposed'[r]["rework"])]
  /\ UNCHANGED <<status, received, closed, qc, events, adjusted, counted, putaway, moved, poVars>>

\* postQcWarehouseDisposition: q units leave QA for the sellable or the hold
\* location, whichever receipt they came from.
QcWarehouseDisposition(to, q) ==
  /\ to \in {"SELLABLE", "HOLD"}
  /\ Transfer("QA", to, q)
  /\ UNCHANGED <<receiptVars, qcVars, alloc, adjusted, counted, putaway, moved, poVars>>

-----------------------------------------------------------------------------
(***************************************************************************)
(* Putaways.                                                               *)
(***************************************************************************)

\* The quantity of the receipt's putaway lines that wait to be posted.
PendingPutaway(r, others) ==
  SumFunctionOnSet([p \in others |-> putaway[p].qty],
                   {p \in others : putaway[p].status = "draft" /\ putaway[p].receipt = r})

\* Seeded fault: the branch of the calculation that requires no acceptance.
QcAllowedUninspected(r) == received[r] - qc[r]["reject"]

\* calculatePutawayAvailability: nothing until every unit is inspected and some
\* are accepted; then the accepted units, less what is available already.
QcAllowed(r) ==
  IF QcTotal(r) < received[r] THEN 0
  ELSE IF received[r] - qc[r]["reject"] < qc[r]["accept"]
       THEN received[r] - qc[r]["reject"] ELSE qc[r]["accept"]

RemainingAfterPosted(r) == QcAllowed(r) - alloc[r]["AVAILABLE"]
AvailableForPlanning(r, others) == RemainingAfterPosted(r) - PendingPutaway(r, others)

\* createPutaway reads the receipt, its QC events and the putaway totals on the
\* pool, and checks the request against them, ...
CheckPutaway(p, r, q) ==
  /\ putaway[p].status = "none"
  /\ status[r] = "posted"
  /\ q <= AvailableForPlanning(r, Putaways)
  /\ putaway' = [putaway EXCEPT ![p] = [status |-> "checked", receipt |-> r, qty |-> q]]
  /\ UNCHANGED <<receiptVars, qcVars, alloc, adjusted, counted, stockVars, moved, poVars>>

\* ... and inserts the putaway and its line in a transaction of their own.
InsertPutaway(p) ==
  /\ putaway[p].status = "checked"
  /\ putaway' = [putaway EXCEPT ![p].status = "draft"]
  /\ UNCHANGED <<receiptVars, qcVars, alloc, adjusted, counted, stockVars, moved, poVars>>

\* completePutawayCommand: the lifecycle after units became available.
CompletePutaway(state, accepted, available) ==
  LET started == IF state = "QC_COMPLETED" /\ available > 0 THEN "PUTAWAY_PENDING" ELSE state
  IN IF started = "PUTAWAY_PENDING" /\ accepted > 0 /\ available >= accepted
     THEN "AVAILABLE" ELSE started

\* postPutaway, under the putaway's row lock and the item's advisory lock:
\* the receipt is not voided, the units are allocated in QA, the quantity is
\* checked again (its own pending line left out), and stock, layers,
\* allocations, the putaway and the lifecycle move together.
PostPutaway(p) ==
  LET r == putaway[p].receipt
      q == putaway[p].qty
  IN /\ putaway[p].status = "draft"
     /\ status[r] # "voided"
     /\ q <= AvailableForPlanning(r, Putaways \ {p})
     /\ q <= RemainingAfterPosted(r)
     /\ MoveAllocation(r, "QA", "AVAILABLE", q)
     /\ Transfer("QA", "SELLABLE", q)
     /\ putaway' = [putaway EXCEPT ![p].status = "completed"]
     /\ moved' = [moved EXCEPT ![r] = @ + q]
     /\ life' = [life EXCEPT ![r] =
          CompletePutaway(@, qc[r]["accept"], alloc'[r]["AVAILABLE"])]
     /\ UNCHANGED <<status, received, closed, qcVars, adjusted, counted, poVars>>

-----------------------------------------------------------------------------
(***************************************************************************)
(* Closeout.                                                               *)
(***************************************************************************)

\* The allocation status that count c at location l is about.  A count without
\* a status is settled as AVAILABLE, wherever it was made.
CountedStatus(c, l) ==
  CASE c.status \in {"QA", "AVAILABLE"} -> c.status
    [] c.status = "HOLD" -> IF l = "REJECT" THEN "REJECT" ELSE "HOLD"
    [] OTHER -> "AVAILABLE"

\* sumMatchingAllocations: what is allocated at location l, in the status
\* counted or in any.
ExpectedCount(r, c, l) ==
  LET b == CountedStatus(c, l)
  IN IF c.status = "any" THEN SumFunctionOnSet(alloc[r], {s \in Buckets : RoleOf(s) = l})
     ELSE IF RoleOf(b) = l THEN alloc[r][b] ELSE 0

\* What the counts found beyond what was expected, location by location.
Differences(r, sheet) ==
  [l \in Roles |->
     IF sheet[l].status = "none" THEN 0 ELSE sheet[l].qty - ExpectedCount(r, sheet[l], l)]

\* What they change of each allocation status.
Corrections(sheet, delta) ==
  [b \in Buckets |->
     LET at(l) == IF CountedStatus(sheet[l], l) = b THEN delta[l] ELSE 0
     IN at("QA") + at("SELLABLE") + at("HOLD") + at("REJECT")]

\* A shortage at location l is taken from the allocations that status b has
\* there, which must cover it.
ShortageCovered(r, b, l, delta) ==
  delta < 0 => RoleOf(b) = l /\ alloc[r][b] + delta >= 0

\* applyAdjustmentResolution for every count of the sheet: the balance of the
\* location and the allocations of the status change by the difference, the cost
\* layers do not.
ApplyAdjustments(r, sheet) ==
  LET delta == Differences(r, sheet)
      correction == Corrections(sheet, delta)
  IN /\ \A l \in Roles : /\ ShortageCovered(r, CountedStatus(sheet[l], l), l, delta[l])
                         /\ stock[l] + delta[l] >= 0
     /\ alloc' = [alloc EXCEPT ![r] = [b \in Buckets |-> alloc[r][b] + correction[b]]]
     /\ adjusted' = [adjusted EXCEPT ![r] = [b \in Buckets |-> adjusted[r][b] + correction[b]]]
     /\ counted' = [counted EXCEPT ![r] = [l \in Roles |-> counted[r][l] + delta[l]]]
     /\ stock' = [l \in Roles |-> stock[l] + delta[l]]

\* Seeded fault: the closeout does not look at the hold.
CloseReceiptHeld(r, sheet) ==
  /\ status[r] # "none"
  /\ ~closed[r]
  /\ ApplyAdjustments(r, sheet)
  /\ alloc'[r]["QA"] = 0
  /\ closed' = [closed EXCEPT ![r] = TRUE]
  /\ UNCHANGED <<status, life, received, qcVars, layers, putaway, moved, poVars>>

\* assertReceiptCloseoutAllowed, once the counts are resolved: no hold is open,
\* nothing of the receipt is left in QA and the allocations add up.
CloseoutAllowed(r) ==
  /\ NetHold(r) <= 0
  /\ alloc'[r]["QA"] = 0
  /\ SumFunction(alloc'[r]) = received[r] + SumFunction(adjusted'[r])

\* closePurchaseOrderReceipt: the physical counts are resolved and the receipt
\* closes.  Counts within tolerance, and differences that are approved and not
\* adjusted, change nothing, as a location that is not counted.
CloseReceipt(r, sheet) ==
  /\ status[r] # "none"
  /\ ~closed[r]
  /\ ApplyAdjustments(r, sheet)
  /\ CloseoutAllowed(r)
  /\ closed' = [closed EXCEPT ![r] = TRUE]
  /\ UNCHANGED <<status, life, received, qcVars, layers, putaway, moved, poVars>>

\* closePurchaseOrderLine: the open line is closed short or cancelled, and the
\* order's status follows.
ClosePurchaseOrderLine(closeAs) ==
  /\ po \notin {"received", "closed", "canceled"}
  /\ line = "open"
  /\ closeAs \in {"closed_short", "cancelled"}
  /\ UpdatePoStatusFromReceipts(po, closeAs, status, received)
  /\ UNCHANGED <<receiptVars, qcVars, alloc, adjusted, counted, stockVars, putaway, moved, refresh>>

\* closePurchaseOrderByAction: an open order is closed, or canceled if no
\* receipt that is not voided stands against it.
ClosePurchaseOrder(closeAs) ==
  /\ po \notin {"received", "closed", "canceled"}
  /\ \/ /\ closeAs = "closed"
        /\ line' = IF line = "open" THEN "closed_short" ELSE line
     \/ /\ closeAs = "canceled"
        /\ \A r \in Receipts : status[r] # "posted"
        /\ line' = IF line = "complete" THEN line ELSE "cancelled"
  /\ po' = closeAs
  /\ UNCHANGED <<receiptVars, qcVars, alloc, adjusted, counted, stockVars, putaway, moved, refresh>>

-----------------------------------------------------------------------------
Next ==
  \/ \E r \in Receipts, q \in Quantities, over \in BOOLEAN : CreateReceipt(r, q, over)
  \/ \E r \in Receipts : \/ VoidReceipt(r)
                         \/ ReadPoStatus(r)
                         \/ ReadPoLines(r)
                         \/ WritePoLine(r)
                         \/ WritePoStatus(r)
  \/ \E r \in Receipts, q \in Quantities : \/ \E t \in QcTypes : QcEvent(r, t, q)
                                           \/ \E d \in Dispositions : ResolveHoldDisposition(r, d, q)
  \/ \E l \in Roles, q \in Quantities : QcWarehouseDisposition(l, q)
  \/ \E p \in Putaways, r \in Receipts, q \in Quantities : CheckPutaway(p, r, q)
  \/ \E p \in Putaways : InsertPutaway(p) \/ PostPutaway(p)
  \/ \E r \in Receipts, sheet \in CountSheets : CloseReceipt(r, sheet)
  \/ \E c \in LineStatuses : ClosePurchaseOrderLine(c)
  \/ \E c \in PoStatuses : ClosePurchaseOrder(c)

Spec == Init /\ [][Next]_vars

-----------------------------------------------------------------------------
(***************************************************************************)
(* Properties.                                                             *)
(***************************************************************************)

\* The tables have their types; quantities are never negative, at a location,
\* in an allocation status or in a cost layer.
TypeOK ==
  /\ status \in [Receipts -> {"none", "posted", "voided"}]
  /\ life \in [Receipts -> LifeStates]
  /\ received \in [Receipts -> Nat]
  /\ qc \in [Receipts -> [QcTypes -> Nat]]
  /\ events \in [Receipts -> Nat]
  /\ disposed \in [Receipts -> [Dispositions -> Nat]]
  /\ alloc \in [Receipts -> [Buckets -> Nat]]
  /\ adjusted \in [Receipts -> [Buckets -> Int]]
  /\ counted \in [Receipts -> [Roles -> Int]]
  /\ closed \in [Receipts -> BOOLEAN]
  /\ layers \in [Roles -> [Receipts -> Nat]]
  /\ stock \in [Roles -> Nat]
  /\ putaway \in [Putaways -> [status : {"none", "checked", "draft", "completed"},
                               receipt : Receipts, qty : Nat]]
  /\ moved \in [Receipts -> Nat]
  /\ po \in PoStatuses
  /\ line \in LineStatuses
  /\ refresh \in [Receipts -> [pc : {"idle", "due", "read", "derived", "write"},
                               seen : PoStatuses, next : PoStatuses,
                               stale : LineStatuses, line : LineStatuses]]

\* The allocations of a receipt say where its units are, and are what the
\* events that moved them add up to: what QC put on hold and rejected, what the
\* dispositions took off hold, what the putaways moved, the rest in QA, each
\* corrected by the physical counts.  Accepted units are part of the rest: an
\* accept moves neither units nor allocations (qc.service.ts 933-966).
AllocationsMatchEvents ==
  \A r \in Receipts :
    /\ alloc[r]["QA"] = received[r] - moved[r] - qc[r]["hold"] - qc[r]["reject"] + adjusted[r]["QA"]
    /\ alloc[r]["AVAILABLE"] = moved[r] + disposed[r]["release"] + adjusted[r]["AVAILABLE"]
    /\ alloc[r]["HOLD"] = NetHold(r) + adjusted[r]["HOLD"]
    /\ alloc[r]["REJECT"] = qc[r]["reject"] + adjusted[r]["REJECT"]
    /\ alloc[r]["REWORK"] = disposed[r]["rework"]
    /\ alloc[r]["DISCARDED"] = disposed[r]["discard"]

\* Relocating layers neither makes nor loses cost: the layers that came from a
\* receipt hold together the quantity it received, wherever its units went, and
\* nothing once it is voided.
ReceiptCostConserved ==
  \A r \in Receipts :
    layers["QA"][r] + layers["SELLABLE"][r] + layers["HOLD"][r] + layers["REJECT"][r]
      = IF status[r] = "voided" THEN 0 ELSE received[r]

\* At every location the stock on hand is the stock the cost layers value, up
\* to the physical-count adjustments, which touch no layer.
LayersMatchStock ==
  \A l \in Roles :
    stock[l] = LayerTotal(l) + SumFunction([r \in Receipts |-> counted[r][l]])

\* A receipt leaves QC only when every unit of it was decided about and none is
\* on hold any more, and it is rejected as a whole only when no unit was
\* accepted, released or reworked.
QcCompletedMeansDecided ==
  \A r \in Receipts :
    /\ life[r] \in {"QC_COMPLETED", "PUTAWAY_PENDING", "AVAILABLE", "REJECTED"} =>
         QcTotal(r) = received[r] /\ NetHold(r) = 0
    /\ life[r] = "REJECTED" =>
         qc[r]["accept"] = 0 /\ disposed[r]["release"] = 0 /\ disposed[r]["rework"] = 0

\* Putaways move no more than QC accepted, however many drafts were planned
\* against the same units.
PutawayWithinAccepted ==
  \A r \in Receipts : moved[r] <= qc[r]["accept"]

\* A closed receipt stays settled: nothing of it returns to QA or to hold.
ClosedReceiptSettled ==
  \A r \in Receipts : closed[r] => alloc[r]["QA"] = 0 /\ NetHold(r) = 0

\* A closed or canceled order is not reopened, by the late refresh of a void
\* either.
TerminalOrderNotReopened ==
  [][(po \in {"closed", "canceled"}) => (po' \in {"closed", "canceled"})]_vars

\* A receipt that one QC event decided about, and whose hold, if it was one, the
\* dispositions have taken up, is no longer waiting for QC: however its event and
\* its dispositions lie among those of other receipts, the evaluation is not missed.
DecidedByOneEventEvaluated ==
  \A r \in Receipts :
    status[r] = "posted" /\ events[r] <= 1 /\ QcTotal(r) = received[r] /\ NetHold(r) = 0
      => life[r] # "QC_PENDING"

\* Once every received unit is decided about and no hold is open, the receipt
\* is no longer waiting for QC.
QcEvaluatedWhenDecided ==
  \A r \in Receipts :
    status[r] = "posted" /\ QcTotal(r) = received[r] /\ NetHold(r) = 0 => life[r] # "QC_PENDING"

=============================================================================
