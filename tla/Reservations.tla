---------------------------- MODULE Reservations ----------------------------
(***************************************************************************)
(* Sales-order reservations and shipments (services/orderToCash.service.ts) *)
(* over the stock ledger and its inventory_balance projection.             *)
(*                                                                         *)
(* Every operation runs inside one SERIALIZABLE transaction                *)
(* (runInventoryCommand), so its committed effect is that of running alone. *)
(* `db' is the committed database and `view' what the running transaction  *)
(* sees: a handler with several lines takes one step per line on `view',   *)
(* Commit installs it, Abort (an error thrown by a later line, a lost      *)
(* connection, a crash) forgets it.  Handlers that touch one reservation    *)
(* are single steps.                                                       *)
(*                                                                         *)
(* A line's row update and its inventory_balance operation form one step   *)
(* although the command runs the balance operations after all row updates: *)
(* row updates never read inventory_balance, balance operations never read *)
(* reservations, and a failure of either undoes the whole transaction.     *)
(***************************************************************************)
EXTENDS Integers, Sequences, FiniteSets, FiniteSetsExt

CONSTANTS
    Slots,               \* (demand_type, demand_id, item, location, uom): at most one reservation each
    Keys,                \* (item, location, uom): one inventory_balance row each
    KeyOf,               \* the Key a Slot reserves from
    Shipments,           \* ids of sales_order_shipments
    NoShipment,
    ReservationRequests, \* bodies of POST /reservations: sequences of ReservationLine
    ShipmentForms,       \* bodies of POST /shipments, in every order of their lines
    AdjustmentForms,     \* lines of the inventory adjustments to post
    FulfillQuantities,   \* quantities of POST /reservations/:id/fulfill
    NegativeOverride,    \* ALLOW_NEGATIVE_WITH_OVERRIDE and the caller asks for it
    MaxOnHand            \* bound: an adjustment stops at this stock

ReservationLine ==
    [slot: Slots, quantity: Nat \ {0}, allowBackorder: BOOLEAN,
     quantityFulfilled: Nat, expires: BOOLEAN]

ShipmentLine == [slot: Slots, quantity: Nat \ {0}]

AdjustmentLine == [key: Keys, delta: Int \ {0}]

ASSUME ConstantsAssumption ==
    /\ IsFiniteSet(Slots)
    /\ IsFiniteSet(Shipments)
    /\ KeyOf \in [Slots -> Keys]
    /\ NoShipment \notin Shipments
    /\ ReservationRequests \subseteq Seq(ReservationLine)
    /\ ShipmentForms \subseteq Seq(ShipmentLine) \ {<< >>}
    /\ AdjustmentForms \subseteq Seq(AdjustmentLine) \ {<< >>}
    /\ FulfillQuantities \subseteq Nat \ {0}
    /\ NegativeOverride \in BOOLEAN
    /\ MaxOnHand \in Nat

VARIABLES
    db,    \* committed tables
    view,  \* the tables as the running transaction sees them
    tx     \* the running transaction: its operation, what it has left to do, its document

vars == <<db, view, tx>>

-----------------------------------------------------------------------------
(* Tables                                                                  *)

ActiveStatuses == {"RESERVED", "ALLOCATED"}

Statuses == ActiveStatuses \cup {"FULFILLED", "CANCELLED", "EXPIRED"}

(* inventory_reservations; status NONE stands for "no row". `expiry' is    *)
(* expires_at against the clock: not set, in the future, or passed.        *)
Reservation ==
    [status: Statuses \cup {"NONE"}, reserved: Nat, fulfilled: Nat,
     expiry: {"never", "pending", "due"}]

NoReservation == [status |-> "NONE", reserved |-> 0, fulfilled |-> 0, expiry |-> "never"]

(* inventory_balance.                                                      *)
Balance == [onHand: Int, reserved: Int, allocated: Int]

(* The posted movement lines of a Key, totalled per movement type.         *)
Movements == [adjustment: Int, issue: Nat]

Shipment == [status: {"none", "draft", "posted"}, lines: Seq(ShipmentLine)]

Database ==
    [row: [Slots -> Reservation],
     balance: [Keys -> Balance],
     ledger: [Keys -> Movements],
     backorder: SUBSET Slots,       \* slots with an open inventory_backorders row
     shipment: [Shipments -> Shipment]]

EmptyDatabase ==
    [row |-> [s \in Slots |-> NoReservation],
     balance |-> [k \in Keys |-> [onHand |-> 0, reserved |-> 0, allocated |-> 0]],
     ledger |-> [k \in Keys |-> [adjustment |-> 0, issue |-> 0]],
     backorder |-> {},
     shipment |-> [h \in Shipments |-> [status |-> "none", lines |-> << >>]]]

Operations == {"createReservations", "createShipment", "postShipment", "postAdjustment", "expire"}

(* The operation, its lines or its due rows still to do, and its document. *)
Transaction ==
    [op: Operations \cup {"idle"},
     todo: Seq(ReservationLine) \cup Seq(ShipmentLine) \cup Seq(AdjustmentLine),
     due: SUBSET Slots,
     doc: Shipments \cup {NoShipment}]

Idle == [op |-> "idle", todo |-> << >>, due |-> {}, doc |-> NoShipment]

-----------------------------------------------------------------------------
(* Quantities derived from the tables                                      *)

Least(a, b) == IF a <= b THEN a ELSE b

AtLeastZero(a) == IF a >= 0 THEN a ELSE 0

Open(r) == AtLeastZero(r.reserved - r.fulfilled)

Active(r) == r.status \in ActiveStatuses

(* inventory_on_hand_location_v.                                           *)
OnHand(m) == m.adjustment - m.issue

(* inventory_commitments_location_v: the open quantity of the reservations *)
(* of a Key in one of the statuses, counted as a set of units.             *)
CommittedUnits(row, k, statuses) ==
    UNION {{s} \X (1..Open(row[s])) : s \in {s \in Slots : KeyOf[s] = k /\ row[s].status \in statuses}}

Committed(row, k) == Cardinality(CommittedUnits(row, k, ActiveStatuses))

(* inventory_available_location_v, read by getCanonicalAvailability.       *)
Available(d, k) == OnHand(d.ledger[k]) - Committed(d.row, k)

-----------------------------------------------------------------------------
(* inventory_balance: applyInventoryBalanceProjectionDelta throws unless   *)
(* DeltaOK, and otherwise writes ApplyDelta.                               *)

(* Seeded fault: no ALLOCATED_NEGATIVE guard.                               *)
DeltaOKWithoutAllocatedGuard(b, onHand, reserved, allocated) ==
    /\ b.reserved + reserved >= 0
    /\ b.onHand + onHand - (b.reserved + reserved) - (b.allocated + allocated) >= 0

(* Seeded fault: no AVAILABLE_NEGATIVE guard.                               *)
DeltaOKWithoutAvailableGuard(b, onHand, reserved, allocated) ==
    /\ b.reserved + reserved >= 0
    /\ b.allocated + allocated >= 0

DeltaOK(b, onHand, reserved, allocated) ==
    \/ onHand = 0 /\ reserved = 0 /\ allocated = 0
    \/ /\ allocated > 0 =>
            allocated <= b.onHand - b.reserved - b.allocated + AtLeastZero(-reserved)
       /\ b.reserved + reserved >= 0
       /\ b.allocated + allocated >= 0
       /\ b.onHand + onHand - (b.reserved + reserved) - (b.allocated + allocated) >= 0

(* Seeded fault: the UPDATE forgets on_hand.                                *)
ApplyDeltaWithoutOnHand(b, onHand, reserved, allocated) ==
    [onHand |-> b.onHand, reserved |-> b.reserved + reserved, allocated |-> b.allocated + allocated]

ApplyDelta(b, onHand, reserved, allocated) ==
    [onHand |-> b.onHand + onHand,
     reserved |-> b.reserved + reserved,
     allocated |-> b.allocated + allocated]

(* UPDATE of a reservation and of its balance row.                         *)
Change(d, s, r, b) == [d EXCEPT !.row[s] = r, !.balance[KeyOf[s]] = b]

-----------------------------------------------------------------------------
(* Transactions                                                            *)

(* A handler that is one step: it starts, changes d and commits.           *)
Install(d) ==
    /\ db' = d
    /\ view' = d
    /\ UNCHANGED tx

Begin(op, todo, due, doc) ==
    /\ tx = Idle
    /\ tx' = [op |-> op, todo |-> todo, due |-> due, doc |-> doc]

(* The running transaction is done with its first line.                    *)
NextLine == tx' = [tx EXCEPT !.todo = Tail(@)]

Running(op) == tx.op = op /\ tx.todo # << >>

Line == Head(tx.todo)

(* The handlers that end with their last line commit here.                 *)
Commit ==
    /\ tx.op \in {"createReservations", "createShipment", "postAdjustment", "expire"}
    /\ tx.todo = << >>
    /\ tx.due = {}
    /\ db' = view
    /\ tx' = Idle
    /\ UNCHANGED view

(* Seeded fault: the pooled connection is reused without ROLLBACK.         *)
AbortWithoutRollback ==
    /\ tx # Idle
    /\ tx' = Idle
    /\ UNCHANGED <<db, view>>

(* ROLLBACK: a thrown error, a serialization failure, a crash.             *)
Abort ==
    /\ tx # Idle
    /\ view' = db
    /\ tx' = Idle
    /\ UNCHANGED db

-----------------------------------------------------------------------------
(* createReservations                                                      *)

BeginCreateReservations(request) ==
    /\ Begin("createReservations", request, {}, NoShipment)
    /\ UNCHANGED <<db, view>>

(* The line's idempotency key is on a row already: the row is returned.    *)
ReserveLineReplayed ==
    /\ Running("createReservations")
    /\ view.row[Line.slot].status # "NONE"
    /\ NextLine
    /\ UNCHANGED <<db, view>>

(* What the line may take: all of it or nothing without backorders, as     *)
(* much as is available with them.                                         *)
ReserveQty(line, available) ==
    IF line.allowBackorder THEN AtLeastZero(Least(line.quantity, available))
                           ELSE line.quantity

(* upsertBackorder runs before the reservation is inserted, whether or not *)
(* the slot turns out to have a row.                                       *)
BackorderAfter(d, line, reserveQty) ==
    IF reserveQty < line.quantity THEN d.backorder \cup {line.slot} ELSE d.backorder

(* Nothing to reserve, or INSERT ... ON CONFLICT DO NOTHING finds the slot *)
(* taken (by a row of any status) and the row is returned as it is.        *)
ReserveLineWithoutInsert ==
    LET available  == Available(view, KeyOf[Line.slot])
        reserveQty == ReserveQty(Line, available)
    IN  /\ Running("createReservations")
        /\ \/ reserveQty = 0
           \/ /\ view.row[Line.slot].status # "NONE"
              /\ ~Line.allowBackorder => available >= reserveQty
        /\ view' = [view EXCEPT !.backorder = BackorderAfter(view, Line, reserveQty)]
        /\ NextLine
        /\ UNCHANGED db

(* The reservation row createReservations inserts.                         *)
NewReservation(line, reserveQty) ==
    [status    |-> "RESERVED",
     reserved  |-> reserveQty,
     fulfilled |-> Least(line.quantityFulfilled, reserveQty),
     expiry    |-> IF line.expires THEN "pending" ELSE "never"]

ReserveLine ==
    LET s          == Line.slot
        k          == KeyOf[s]
        available  == Available(view, k)
        reserveQty == ReserveQty(Line, available)
    IN  /\ Running("createReservations")
        /\ view.row[s].status = "NONE"
        /\ reserveQty > 0
        /\ ~Line.allowBackorder => available >= reserveQty
        /\ DeltaOK(view.balance[k], 0, reserveQty, 0)
        /\ view' = [Change(view, s, NewReservation(Line, reserveQty),
                           ApplyDelta(view.balance[k], 0, reserveQty, 0))
                     EXCEPT !.backorder = BackorderAfter(view, Line, reserveQty)]
        /\ NextLine
        /\ UNCHANGED db

-----------------------------------------------------------------------------
(* allocateReservation, cancelReservation, fulfillReservation              *)

(* Row s and its balance change together; the handler has committed.       *)
Transition(s, r, reserved, allocated) ==
    LET k == KeyOf[s] IN
    /\ tx = Idle
    /\ DeltaOK(db.balance[k], 0, reserved, allocated)
    /\ Install(Change(db, s, r, ApplyDelta(db.balance[k], 0, reserved, allocated)))

(* Seeded fault: the status of the row is not checked.                      *)
AllocateAnyReservation(s) ==
    LET r == db.row[s] IN
    /\ Open(r) > 0
    /\ Transition(s, [r EXCEPT !.status = "ALLOCATED"], -Open(r), Open(r))

AllocateReservation(s) ==
    LET r == db.row[s] IN
    /\ r.status = "RESERVED"
    /\ Open(r) > 0
    /\ Transition(s, [r EXCEPT !.status = "ALLOCATED"], -Open(r), Open(r))

(* Seeded faults: a row in any status is cancelled; the allocated stock of  *)
(* a cancelled row is not given back.                                      *)
CancelAnyReservation(s) ==
    LET r == db.row[s] IN
    /\ r.status # "NONE"
    /\ Transition(s, [r EXCEPT !.status = "CANCELLED"],
                  IF r.status = "RESERVED" THEN -Open(r) ELSE 0,
                  IF r.status = "ALLOCATED" THEN -Open(r) ELSE 0)

CancelReservedOnly(s) ==
    LET r == db.row[s] IN
    /\ Active(r)
    /\ Transition(s, [r EXCEPT !.status = "CANCELLED"],
                  IF r.status = "RESERVED" THEN -Open(r) ELSE 0, 0)

CancelReservation(s) ==
    LET r == db.row[s] IN
    /\ Active(r)
    /\ Transition(s, [r EXCEPT !.status = "CANCELLED"],
                  IF r.status = "RESERVED" THEN -Open(r) ELSE 0,
                  IF r.status = "ALLOCATED" THEN -Open(r) ELSE 0)

(* A row after `quantity' more of it is fulfilled.                         *)
Fulfilled(r, quantity) ==
    LET total == Least(r.reserved, r.fulfilled + quantity) IN
    [r EXCEPT !.fulfilled = total,
              !.status    = IF total = r.reserved THEN "FULFILLED" ELSE "ALLOCATED"]

(* Seeded fault: the quantity is not cut to what is open.                   *)
FulfillUncut(s, quantity) ==
    /\ db.row[s].status = "ALLOCATED"
    /\ Open(db.row[s]) > 0
    /\ Transition(s, Fulfilled(db.row[s], quantity), 0, -quantity)

FulfillReservation(s, quantity) ==
    LET r          == db.row[s]
        fulfillQty == Least(quantity, Open(r))
    IN  /\ r.status = "ALLOCATED"
        /\ Open(r) > 0
        /\ Transition(s, Fulfilled(r, fulfillQty), 0, -fulfillQty)

-----------------------------------------------------------------------------
(* expireReservationsJob                                                   *)

(* The clock passes expires_at (which only matters to RESERVED rows).      *)
TimePasses(s) ==
    /\ tx = Idle
    /\ db.row[s].status = "RESERVED"
    /\ db.row[s].expiry = "pending"
    /\ Install([db EXCEPT !.row[s] = [@ EXCEPT !.expiry = "due"]])

(* Seeded fault: the job selects on expires_at alone.                       *)
DueSlotsOfAnyStatus == {s \in Slots : db.row[s].expiry = "due"}

DueSlots == {s \in Slots : db.row[s].status = "RESERVED" /\ db.row[s].expiry = "due"}

(* FOR UPDATE SKIP LOCKED: any of the due rows may be locked by another    *)
(* transaction and left for the next run.                                  *)
BeginExpire(due) ==
    /\ due \subseteq DueSlots
    /\ due # {}
    /\ Begin("expire", << >>, due, NoShipment)
    /\ UNCHANGED <<db, view>>

(* Seeded fault: the stock is released and the row stays RESERVED.          *)
ExpireBalanceOnly(s) ==
    LET r == view.row[s]
        k == KeyOf[s]
    IN  /\ tx.op = "expire"
        /\ s \in tx.due
        /\ DeltaOK(view.balance[k], 0, -Open(r), 0)
        /\ view' = Change(view, s, r, ApplyDelta(view.balance[k], 0, -Open(r), 0))
        /\ tx' = [tx EXCEPT !.due = @ \ {s}]
        /\ UNCHANGED db

ExpireRow(s) ==
    LET r == view.row[s]
        k == KeyOf[s]
    IN  /\ tx.op = "expire"
        /\ s \in tx.due
        /\ DeltaOK(view.balance[k], 0, -Open(r), 0)
        /\ view' = Change(view, s, [r EXCEPT !.status = "EXPIRED"],
                          ApplyDelta(view.balance[k], 0, -Open(r), 0))
        /\ tx' = [tx EXCEPT !.due = @ \ {s}]
        /\ UNCHANGED db

-----------------------------------------------------------------------------
(* createShipment                                                          *)

Draft(form) == [status |-> "draft", lines |-> form]

CreateShipment(h, form) ==
    /\ tx = Idle
    /\ db.shipment[h].status = "none"
    /\ Install([db EXCEPT !.shipment[h] = Draft(form)])

(* autoAllocateReservations: the document and the allocation of the        *)
(* reservations it ships in full.                                          *)
BeginCreateShipment(h, form) ==
    /\ db.shipment[h].status = "none"
    /\ Begin("createShipment", form, {}, h)
    /\ view' = [view EXCEPT !.shipment[h] = Draft(form)]
    /\ UNCHANGED db

(* The handler decides on the rows it read before its first line.          *)
AutoAllocates(line) ==
    LET r == db.row[line.slot] IN
    r.status = "RESERVED" /\ Open(r) > 0 /\ Open(r) <= line.quantity

AutoAllocateLineSkipped ==
    /\ Running("createShipment")
    /\ ~AutoAllocates(Line)
    /\ NextLine
    /\ UNCHANGED <<db, view>>

AutoAllocateLine ==
    LET s       == Line.slot
        k       == KeyOf[s]
        openQty == Open(db.row[s])
    IN  /\ Running("createShipment")
        /\ AutoAllocates(Line)
        /\ view.row[s].status = "RESERVED"
        /\ DeltaOK(view.balance[k], 0, -openQty, openQty)
        /\ view' = Change(view, s, [view.row[s] EXCEPT !.status = "ALLOCATED"],
                          ApplyDelta(view.balance[k], 0, -openQty, openQty))
        /\ NextLine
        /\ UNCHANGED db

-----------------------------------------------------------------------------
(* postShipment                                                            *)

(* What a line consumes of its reservation, computed for every line before *)
(* the first one is applied.                                               *)
ReserveConsume(line) ==
    LET r == db.row[line.slot] IN
    IF Active(r) THEN Least(line.quantity, Open(r)) ELSE 0

(* validateSufficientStock: the unreserved part of all lines of a Key.     *)
UnreservedDemand(form, k) ==
    MapThenSumSet(LAMBDA i : form[i].quantity - ReserveConsume(form[i]),
                  {i \in DOMAIN form : KeyOf[form[i].slot] = k})

StockSufficient(form) ==
    \A k \in Keys :
        \/ UnreservedDemand(form, k) <= 0
        \/ UnreservedDemand(form, k) <= Available(db, k)

(* canShipWithReservationAllowance, for every line.                        *)
AllowanceSufficient(form) ==
    \A i \in DOMAIN form :
        Available(db, KeyOf[form[i].slot]) + ReserveConsume(form[i]) >= form[i].quantity

BeginPostShipment(h) ==
    LET form == db.shipment[h].lines IN
    /\ db.shipment[h].status = "draft"
    /\ IF StockSufficient(form) THEN AllowanceSufficient(form) ELSE NegativeOverride
    /\ Begin("postShipment", form, {}, h)
    /\ UNCHANGED <<db, view>>

(* Seeded fault: the row's status is not looked at.                         *)
AllocatedWhateverStatus(b, r, consume) == ApplyDelta(b, 0, -consume, consume)

(* A RESERVED row is first allocated for the consumed quantity.            *)
AllocatedForShipment(b, r, consume) ==
    IF r.status = "RESERVED" THEN ApplyDelta(b, 0, -consume, consume) ELSE b

ShipLine ==
    LET s       == Line.slot
        k       == KeyOf[s]
        qty     == Line.quantity
        consume == ReserveConsume(Line)
        r       == view.row[s]
        b       == view.balance[k]
        mid     == IF consume > 0 THEN AllocatedForShipment(b, r, consume) ELSE b
    IN  /\ Running("postShipment")
        /\ consume > 0 => Active(r)
        /\ consume > 0 /\ r.status = "RESERVED" => DeltaOK(b, 0, -consume, consume)
        /\ DeltaOK(mid, -qty, 0, -consume)
        /\ view' = [Change(view, s, IF consume > 0 THEN Fulfilled(r, consume) ELSE r,
                           ApplyDelta(mid, -qty, 0, -consume))
                     EXCEPT !.ledger[k].issue = @ + qty]
        /\ NextLine
        /\ UNCHANGED db

(* Seeded fault: the document stays a draft.                                *)
CommitWithoutPosting ==
    /\ tx.op = "postShipment"
    /\ tx.todo = << >>
    /\ db' = view
    /\ view' = db'
    /\ tx' = Idle

(* The document is marked posted after its last line.                      *)
CommitPostShipment ==
    /\ tx.op = "postShipment"
    /\ tx.todo = << >>
    /\ db' = [view EXCEPT !.shipment[tx.doc].status = "posted"]
    /\ view' = db'
    /\ tx' = Idle

-----------------------------------------------------------------------------
(* postInventoryAdjustment                                                 *)

NegativeDemand(form, k) ==
    MapThenSumSet(LAMBDA i : -form[i].delta,
                  {i \in DOMAIN form : form[i].key = k /\ form[i].delta < 0})

BeginPostAdjustment(form) ==
    /\ \/ NegativeOverride
       \/ \A k \in Keys :
            \/ NegativeDemand(form, k) <= 0
            \/ NegativeDemand(form, k) <= Available(db, k)
    /\ Begin("postAdjustment", form, {}, NoShipment)
    /\ UNCHANGED <<db, view>>

AdjustLine ==
    LET k == Line.key IN
    /\ Running("postAdjustment")
    /\ OnHand(view.ledger[k]) + Line.delta <= MaxOnHand
    /\ DeltaOK(view.balance[k], Line.delta, 0, 0)
    /\ view' = [view EXCEPT !.ledger[k].adjustment = @ + Line.delta,
                            !.balance[k] = ApplyDelta(@, Line.delta, 0, 0)]
    /\ NextLine
    /\ UNCHANGED db

-----------------------------------------------------------------------------

Init ==
    /\ db = EmptyDatabase
    /\ view = EmptyDatabase
    /\ tx = Idle

Next ==
    \/ \E request \in ReservationRequests : BeginCreateReservations(request)
    \/ ReserveLineReplayed
    \/ ReserveLineWithoutInsert
    \/ ReserveLine
    \/ \E s \in Slots : AllocateReservation(s)
    \/ \E s \in Slots : CancelReservation(s)
    \/ \E s \in Slots, q \in FulfillQuantities : FulfillReservation(s, q)
    \/ \E s \in Slots : TimePasses(s)
    \/ \E due \in SUBSET Slots : BeginExpire(due)
    \/ \E s \in Slots : ExpireRow(s)
    \/ \E h \in Shipments, form \in ShipmentForms : CreateShipment(h, form)
    \/ \E h \in Shipments, form \in ShipmentForms : BeginCreateShipment(h, form)
    \/ AutoAllocateLineSkipped
    \/ AutoAllocateLine
    \/ \E h \in Shipments : BeginPostShipment(h)
    \/ ShipLine
    \/ CommitPostShipment
    \/ \E form \in AdjustmentForms : BeginPostAdjustment(form)
    \/ AdjustLine
    \/ Commit
    \/ Abort

Spec == Init /\ [][Next]_vars

-----------------------------------------------------------------------------
(* Properties                                                              *)

(* Every table holds values of its type, and each line a transaction has   *)
(* left to do has the shape its handler expects.                           *)
TypeOK ==
    /\ db \in Database
    /\ view \in Database
    /\ tx \in Transaction
    /\ tx.op = "createReservations" => tx.todo \in Seq(ReservationLine)
    /\ tx.op \in {"createShipment", "postShipment"} =>
            tx.todo \in Seq(ShipmentLine) /\ tx.doc \in Shipments
    /\ tx.op = "postAdjustment" => tx.todo \in Seq(AdjustmentLine)
    /\ tx.op = "idle" => tx = Idle /\ view = db

(* inventory_balance.on_hand is the ledger's on-hand in every committed    *)
(* state, whichever lines of whichever handlers failed on the way.         *)
LedgerProjected ==
    \A k \in Keys : db.balance[k].onHand = OnHand(db.ledger[k])

(* inventory_balance never promises more than is on hand and neither of    *)
(* its commitment columns is negative (chk_inventory_balance_nonneg).      *)
BalanceSound ==
    \A k \in Keys :
        /\ db.balance[k].reserved >= 0
        /\ db.balance[k].allocated >= 0
        /\ db.balance[k].reserved + db.balance[k].allocated <= db.balance[k].onHand

(* reserved + allocated of inventory_balance is the open quantity of the   *)
(* RESERVED and ALLOCATED reservations: no path through create, allocate,  *)
(* cancel, fulfill, expire and ship leaks or double-frees a commitment.    *)
CommitmentsProjected ==
    \A k \in Keys :
        db.balance[k].reserved + db.balance[k].allocated = Committed(db.row, k)

(* Canonical availability never goes negative: what is promised is on hand. *)
NeverOversold == \A k \in Keys : Available(db, k) >= 0

(* The reserved column always covers the open RESERVED rows, so expiring   *)
(* or cancelling one of them cannot fail on RESERVED_NEGATIVE.             *)
ReservedCovered ==
    \A k \in Keys :
        db.balance[k].reserved >= Cardinality(CommittedUnits(db.row, k, {"RESERVED"}))

(* The reserved column is the open quantity of the RESERVED rows and the   *)
(* allocated column that of the ALLOCATED rows.                            *)
StatusesProjected ==
    \A k \in Keys :
        /\ db.balance[k].reserved = Cardinality(CommittedUnits(db.row, k, {"RESERVED"}))
        /\ db.balance[k].allocated = Cardinality(CommittedUnits(db.row, k, {"ALLOCATED"}))

(* The quantity of Key k that the lines of a shipment ship.                *)
ShippedQuantity(lines, k) ==
    SumFunctionOnSet([i \in DOMAIN lines |-> lines[i].quantity],
                     {i \in DOMAIN lines : KeyOf[lines[i].slot] = k})

(* The quantity of Key k that the posted shipments ship.                   *)
PostedQuantity(shipment, k) ==
    SumFunctionOnSet([h \in Shipments |-> ShippedQuantity(shipment[h].lines, k)],
                     {h \in Shipments : shipment[h].status = "posted"})

(* Stock is issued exactly once per line of a posted shipment, and never   *)
(* for a shipment that is not posted: posting is all lines or none.        *)
ShipmentsIssuedOnce ==
    \A k \in Keys : db.ledger[k].issue = PostedQuantity(db.shipment, k)

(* A reservation that is FULFILLED, CANCELLED or EXPIRED never changes     *)
(* again, a live one keeps its reserved quantity and never un-fulfills,    *)
(* and an ALLOCATED one never falls back to RESERVED or expires.           *)
LifecycleStep(r, next) ==
    /\ r.status \in Statuses \ ActiveStatuses => next = r
    /\ Active(r) => next.reserved = r.reserved /\ next.fulfilled >= r.fulfilled
    /\ r.status = "ALLOCATED" => next.status \notin {"NONE", "RESERVED", "EXPIRED"}
    /\ r.status = "RESERVED" => next.status # "NONE"

ReservationLifecycle == [][\A s \in Slots : LifecycleStep(db.row[s], db'.row[s])]_vars

-----------------------------------------------------------------------------
(* The scheduler runs the expiry job again and again (jobs/scheduler.ts)   *)
(* and row locks last one transaction, so a run of the job that sees all   *)
(* due rows starts infinitely often if it can.  A run that has started     *)
(* takes its steps, and from some point on it is no longer the victim of   *)
(* serialization failures or crashes; an operation balance rejects is      *)
(* never excused.  Any other transaction ends.                             *)
Fairness ==
    /\ SF_vars(BeginExpire(DueSlots))
    /\ WF_vars(\E s \in Slots : ExpireRow(s))
    /\ WF_vars(Commit)
    /\ <>[][~(tx.op = "expire" /\ Abort)]_vars
    /\ WF_vars(tx.op # "expire" /\ Abort)

FairSpec == Spec /\ Fairness

(* A reservation whose expiry time has passed does not keep its stock: it  *)
(* is expired unless it is allocated, cancelled or shipped first.          *)
DueReservationsRelease ==
    \A s \in Slots :
        (db.row[s].status = "RESERVED" /\ db.row[s].expiry = "due")
            ~> db.row[s].status # "RESERVED"
=============================================================================
