---------------------- MODULE ReservationsCommitments -----------------------
(***************************************************************************)
(* The commitment columns of inventory_balance against the reservations,   *)
(* and the issues of the ledger against the shipments.                     *)
(*                                                                         *)
(* The theorems on commitments assume what the repository's own callers    *)
(* respect and its API does not enforce: a shipment has one line per sales *)
(* order line, and a reservation is created with nothing fulfilled yet.    *)
(* The runs `repeated' and `prefulfilled' show that each assumption is     *)
(* needed.  The theorem on shipments, the last section, needs neither.     *)
(***************************************************************************)
EXTENDS ReservationsSafety, Sums

OneLinePerSlot(lines) ==
    \A i, j \in DOMAIN lines : lines[i].slot = lines[j].slot => i = j

FreshLine == {line \in ReservationLine : line.quantityFulfilled = 0}

(* The two assumptions on the requests.                                    *)
DistinctLines == \A form \in ShipmentForms : OneLinePerSlot(form)

NothingPrefulfilled == ReservationRequests \subseteq Seq(FreshLine)

-----------------------------------------------------------------------------
(* What a transaction has left to do, against the rows it has changed      *)

(* Handlers decide on rows they read before their first line (db) and      *)
(* update them later (view).  What they read is still true when used:      *)
(* auto-allocation changes no quantity, a posting has not touched the rows *)
(* of its remaining lines, and the expiry job none of its remaining rows.  *)
FreshReads ==
    /\ TypeOK
    /\ \A h \in Shipments : OneLinePerSlot(db.shipment[h].lines) /\ OneLinePerSlot(view.shipment[h].lines)
    /\ tx.op = "createReservations" => tx.todo \in Seq(FreshLine)
    /\ tx.op = "createShipment" =>
          \A s \in Slots : /\ view.row[s].reserved = db.row[s].reserved
                           /\ view.row[s].fulfilled = db.row[s].fulfilled
    /\ tx.op = "postShipment" =>
          /\ OneLinePerSlot(tx.todo)
          /\ \A i \in DOMAIN tx.todo : view.row[tx.todo[i].slot] = db.row[tx.todo[i].slot]
    /\ tx.op = "expire" => \A s \in tx.due : view.row[s].status = "RESERVED"

(* Dropping the first line keeps the others apart from it.                 *)
LEMMA TailLines ==
    ASSUME NEW lines \in Seq(ShipmentLine), lines # << >>, OneLinePerSlot(lines)
    PROVE  /\ OneLinePerSlot(Tail(lines))
           /\ \A i \in DOMAIN Tail(lines) :
                 /\ Tail(lines)[i].slot # Head(lines).slot
                 /\ \E j \in DOMAIN lines : Tail(lines)[i] = lines[j]
           /\ 1 \in DOMAIN lines /\ Head(lines) = lines[1]
<1>1. /\ Len(lines) \in Nat /\ Len(lines) > 0 /\ DOMAIN lines = 1..Len(lines)
      /\ Tail(lines) \in Seq(ShipmentLine) /\ Len(Tail(lines)) = Len(lines) - 1
      /\ DOMAIN Tail(lines) = 1..(Len(lines) - 1)
  OBVIOUS
<1>2. \A i \in DOMAIN Tail(lines) : i + 1 \in DOMAIN lines /\ Tail(lines)[i] = lines[i + 1]
  BY <1>1
<1>3. 1 \in DOMAIN lines /\ Head(lines) = lines[1]
  BY <1>1
<1>4. OneLinePerSlot(Tail(lines))
  <2> SUFFICES ASSUME NEW i \in DOMAIN Tail(lines), NEW j \in DOMAIN Tail(lines),
                      Tail(lines)[i].slot = Tail(lines)[j].slot
               PROVE  i = j
    BY Zenon DEF OneLinePerSlot
  <2>1. i + 1 = j + 1
    BY <1>2 DEF OneLinePerSlot
  <2> QED BY <1>1, <2>1
<1>5. ASSUME NEW i \in DOMAIN Tail(lines)
      PROVE  /\ Tail(lines)[i].slot # Head(lines).slot
             /\ \E j \in DOMAIN lines : Tail(lines)[i] = lines[j]
  <2>1. i + 1 # 1
    BY <1>1
  <2> QED BY <1>2, <1>3, <2>1, Zenon DEF OneLinePerSlot
<1> QED BY <1>3, <1>4, <1>5, Zenon

(* Every step keeps what the handlers read still true.                     *)
LEMMA FreshReadsStep ==
    ASSUME DistinctLines, NothingPrefulfilled
    PROVE  FreshReads /\ [Next]_vars => FreshReads'
<1> SUFFICES ASSUME FreshReads, [Next]_vars PROVE FreshReads'
  BY Zenon
<1> USE ConstantsAssumption
<1>0. /\ TypeOK /\ TypeOK' /\ db \in Database /\ view \in Database /\ tx \in Transaction
      /\ tx.op = "idle" => tx = Idle /\ view = db
      /\ db' \in Database /\ view' \in Database
  BY TypeStep, Zenon DEF FreshReads, TypeOK
<1>r. \A s \in Slots : /\ db.row[s] \in Reservation /\ Open(db.row[s]) \in Nat
                       /\ view.row[s] \in Reservation /\ Open(view.row[s]) \in Nat
  BY <1>0, OpenIsNat, Zenon DEF Database
<1>s. \A h \in Shipments : OneLinePerSlot(db.shipment[h].lines) /\ OneLinePerSlot(view.shipment[h].lines)
  BY Zenon DEF FreshReads
<1>a. ASSUME tx'.op = "idle",
             \A h \in Shipments : OneLinePerSlot(db'.shipment[h].lines) /\ OneLinePerSlot(view'.shipment[h].lines)
      PROVE  FreshReads'
  BY <1>0, <1>a, Zenon DEF FreshReads
<1>b. ASSUME Install(db'), tx = Idle, db'.shipment = db.shipment PROVE FreshReads'
  BY <1>a, <1>b, <1>s, Zenon DEF Install, Idle
<1>d. ASSUME NEW s \in Slots, NEW r \in Reservation, NEW x \in Int, NEW y \in Int,
             Transition(s, r, x, y)
      PROVE  FreshReads'
  <2> DEFINE c == ApplyDelta(db.balance[KeyOf[s]], 0, x, y)
  <2>1. c \in Balance
    BY <1>0, CommitmentType, Zenon
  <2>2. tx = Idle /\ Install(Change(db, s, r, c))
    BY <1>d, Zenon DEF Transition
  <2> HIDE DEF c
  <2>3. Change(db, s, r, c).shipment = db.shipment
    BY <1>0, <2>1, ChangeRows
  <2> QED BY <1>b, <2>2, <2>3 DEF Install
<1>n. ASSUME NextLine
      PROVE  tx'.op = tx.op /\ tx'.todo = Tail(tx.todo) /\ tx'.due = tx.due /\ tx'.doc = tx.doc
  BY <1>0, <1>n, Zenon DEF NextLine, Transaction
<1>1. ASSUME NEW request \in ReservationRequests, BeginCreateReservations(request) PROVE FreshReads'
  <2>1. tx'.op = "createReservations" /\ tx'.todo = request /\ UNCHANGED <<db, view>>
    BY <1>1, Zenon DEF BeginCreateReservations, Begin
  <2> QED BY <1>0, <1>s, <2>1, Zenon DEF FreshReads, NothingPrefulfilled
<1>e. ASSUME tx.op = "createReservations", tx.todo # << >>, NextLine, UNCHANGED db,
             view'.shipment = view.shipment
      PROVE  FreshReads'
  <2>1. Tail(tx.todo) \in Seq(FreshLine)
    BY <1>e DEF FreshReads
  <2> QED BY <1>0, <1>e, <1>n, <1>s, <2>1, Zenon DEF FreshReads
<1>2. CASE ReserveLineReplayed
  BY <1>2, <1>e, Zenon DEF ReserveLineReplayed, Running
<1>3. CASE ReserveLineWithoutInsert
  <2>1. view'.shipment = view.shipment
    BY <1>0, <1>3, Zenon DEF ReserveLineWithoutInsert, Database
  <2> QED BY <1>3, <1>e, <2>1, Zenon DEF ReserveLineWithoutInsert, Running
<1>4. CASE ReserveLine
  <2> DEFINE s == Line.slot
             q == ReserveQty(Line, Available(view, KeyOf[s]))
             r == NewReservation(Line, q)
             c == ApplyDelta(view.balance[KeyOf[s]], 0, q, 0)
             d == Change(view, s, r, c)
  <2>1. Line \in ReservationLine /\ s \in Slots
    BY <1>0, <1>4, LineTypes DEF ReserveLine, Running, ReservationLine
  <2>2. q \in Nat
    BY <1>0, <2>1, AvailableIsInt, TakenIsNat, Zenon
  <2>3. view' = [d EXCEPT !.backorder = BackorderAfter(view, Line, q)]
    BY <1>4, Zenon DEF ReserveLine
  <2> HIDE DEF q
  <2>4. r \in Reservation
    BY <2>1, <2>2, ColumnTypes
  <2>5. c \in Balance
    <3>1. q \in Int /\ 0 \in Int
      BY <2>2
    <3> QED BY <1>0, <2>1, <3>1, CommitmentType, Zenon
  <2> HIDE DEF r, c
  <2>6. d \in Database /\ d.shipment = view.shipment
    BY <1>0, <2>1, <2>4, <2>5, ChangeRows
  <2> HIDE DEF d
  <2>7. view'.shipment = view.shipment
    BY <2>3, <2>6, Zenon DEF Database
  <2> QED BY <1>4, <1>e, <2>7, Zenon DEF ReserveLine, Running
<1>5. ASSUME NEW s \in Slots, AllocateReservation(s) PROVE FreshReads'
  <2>1. [db.row[s] EXCEPT !.status = "ALLOCATED"] \in Reservation
    BY <1>r, ColumnTypes, Zenon DEF Statuses, ActiveStatuses
  <2>2. -Open(db.row[s]) \in Int /\ Open(db.row[s]) \in Int
    BY <1>r
  <2> QED BY <1>5, <1>d, <2>1, <2>2, Zenon DEF AllocateReservation
<1>6. ASSUME NEW s \in Slots, CancelReservation(s) PROVE FreshReads'
  <2>1. [db.row[s] EXCEPT !.status = "CANCELLED"] \in Reservation
    BY <1>r, ColumnTypes, Zenon DEF Statuses, ActiveStatuses
  <2>2. (IF db.row[s].status = "RESERVED" THEN -Open(db.row[s]) ELSE 0) \in Int
        /\ (IF db.row[s].status = "ALLOCATED" THEN -Open(db.row[s]) ELSE 0) \in Int
    BY <1>r
  <2> QED BY <1>6, <1>d, <2>1, <2>2, Zenon DEF CancelReservation
<1>7. ASSUME NEW s \in Slots, NEW q \in FulfillQuantities, FulfillReservation(s, q) PROVE FreshReads'
  <2> DEFINE n == Least(q, Open(db.row[s]))
  <2>1. n \in Nat /\ -n \in Int /\ 0 \in Int
    BY <1>r DEF Least
  <2>2. Transition(s, Fulfilled(db.row[s], n), 0, -n)
    BY <1>7, Zenon DEF FulfillReservation
  <2> HIDE DEF n
  <2>3. Fulfilled(db.row[s], n) \in Reservation
    BY <1>r, <2>1, ColumnTypes, Zenon
  <2> QED BY <1>d, <2>1, <2>2, <2>3, Zenon
<1>8. ASSUME NEW s \in Slots, TimePasses(s) PROVE FreshReads'
  <2>1. db'.shipment = db.shipment
    BY <1>0, <1>8, Zenon DEF TimePasses, Install, Database
  <2> QED BY <1>8, <1>b, <2>1, Zenon DEF TimePasses, Install
<1>9. ASSUME NEW due \in SUBSET Slots, BeginExpire(due) PROVE FreshReads'
  <2>1. /\ tx' = [op |-> "expire", todo |-> << >>, due |-> due, doc |-> NoShipment]
        /\ due \subseteq DueSlots /\ tx = Idle /\ UNCHANGED <<db, view>>
    BY <1>9, Zenon DEF BeginExpire, Begin
  <2>2. tx'.op = "expire" /\ tx'.due = due
    BY <2>1, Zenon
  <2>3. \A s \in due : view.row[s].status = "RESERVED"
    BY <1>0, <2>1 DEF DueSlots, Idle
  <2> QED BY <1>0, <1>s, <2>1, <2>2, <2>3 DEF FreshReads
<1>10. ASSUME NEW s \in Slots, ExpireRow(s) PROVE FreshReads'
  <2> DEFINE r == [view.row[s] EXCEPT !.status = "EXPIRED"]
             c == ApplyDelta(view.balance[KeyOf[s]], 0, -Open(view.row[s]), 0)
  <2>1. /\ tx.op = "expire" /\ UNCHANGED db /\ view' = Change(view, s, r, c)
        /\ tx' = [tx EXCEPT !.due = @ \ {s}]
    BY <1>10, Zenon DEF ExpireRow
  <2>2. r \in Reservation
    BY <1>r, ColumnTypes, Zenon DEF Statuses, ActiveStatuses
  <2>3. c \in Balance
    <3>1. -Open(view.row[s]) \in Int /\ 0 \in Int
      BY <1>r
    <3> QED BY <1>0, <3>1, CommitmentType, Zenon
  <2> HIDE DEF r, c
  <2>4. view'.shipment = view.shipment /\ \A x \in Slots : x # s => view'.row[x] = view.row[x]
    BY <1>0, <2>1, <2>2, <2>3, ChangeRows
  <2>5. tx'.op = "expire" /\ tx'.due = tx.due \ {s} /\ tx.due \subseteq Slots
    BY <1>0, <2>1, Zenon DEF Transaction
  <2> QED BY <1>0, <1>s, <2>1, <2>4, <2>5, Zenon DEF FreshReads
<1>11. ASSUME NEW h \in Shipments, NEW form \in ShipmentForms, CreateShipment(h, form) PROVE FreshReads'
  <2>1. /\ db' = [db EXCEPT !.shipment[h] = Draft(form)] /\ view' = db' /\ tx' = Idle
    BY <1>11, Zenon DEF CreateShipment, Install
  <2>2. db'.shipment[h].lines = form /\ \A x \in Shipments : x # h => db'.shipment[x] = db.shipment[x]
    BY <1>0, <2>1 DEF Database, Draft
  <2> QED BY <1>a, <1>s, <2>1, <2>2, Zenon DEF Idle, DistinctLines
<1>12. ASSUME NEW h \in Shipments, NEW form \in ShipmentForms, BeginCreateShipment(h, form) PROVE FreshReads'
  <2>1. /\ view' = [view EXCEPT !.shipment[h] = Draft(form)] /\ UNCHANGED db
        /\ tx'.op = "createShipment" /\ tx = Idle
    BY <1>12, Zenon DEF BeginCreateShipment, Begin
  <2>2. /\ view'.shipment[h].lines = form /\ view'.row = db.row
        /\ \A x \in Shipments : x # h => view'.shipment[x] = view.shipment[x]
    BY <1>0, <2>1 DEF Database, Draft, Idle
  <2> QED BY <1>0, <1>s, <2>1, <2>2, Zenon DEF FreshReads, DistinctLines
<1>13. CASE AutoAllocateLineSkipped
  <2>1. UNCHANGED <<db, view>> /\ tx.op = "createShipment" /\ tx'.op = "createShipment"
    BY <1>13, <1>n, Zenon DEF AutoAllocateLineSkipped, Running
  <2> QED BY <1>0, <1>s, <2>1, Zenon DEF FreshReads
<1>14. CASE AutoAllocateLine
  <2> DEFINE s == Line.slot
             n == Open(db.row[s])
             r == [view.row[s] EXCEPT !.status = "ALLOCATED"]
             c == ApplyDelta(view.balance[KeyOf[s]], 0, -n, n)
  <2>1. s \in Slots
    BY <1>0, <1>14, LineTypes, Zenon DEF AutoAllocateLine, Running, ShipmentLine
  <2>2. r \in Reservation
    BY <1>r, <2>1, ColumnTypes, Zenon DEF Statuses, ActiveStatuses
  <2>3. c \in Balance
    <3>1. n \in Int /\ -n \in Int
      BY <1>r, <2>1
    <3> HIDE DEF n
    <3> QED BY <1>0, <2>1, <3>1, CommitmentType
  <2>4. /\ view' = Change(view, s, r, c)
        /\ UNCHANGED db /\ tx'.op = "createShipment" /\ tx.op = "createShipment"
    BY <1>14, <1>n, Zenon DEF AutoAllocateLine, Running
  <2>5. r.reserved = view.row[s].reserved /\ r.fulfilled = view.row[s].fulfilled
    BY <1>r, <2>1 DEF Reservation
  <2> HIDE DEF r, c
  <2>6. /\ view'.row[s] = r /\ \A x \in Slots : x # s => view'.row[x] = view.row[x]
        /\ view'.shipment = view.shipment
    BY <1>0, <2>1, <2>2, <2>3, <2>4, ChangeRows
  <2> QED BY <1>0, <1>s, <2>1, <2>4, <2>5, <2>6 DEF FreshReads
<1>15. ASSUME NEW h \in Shipments, BeginPostShipment(h) PROVE FreshReads'
  <2>1. /\ tx'.op = "postShipment" /\ tx'.todo = db.shipment[h].lines
        /\ UNCHANGED <<db, view>> /\ view = db
    BY <1>0, <1>15, Zenon DEF BeginPostShipment, Begin, Idle
  <2> QED BY <1>0, <1>s, <2>1, Zenon DEF FreshReads
<1>16. CASE ShipLine
  <2> DEFINE s == Line.slot
             k == KeyOf[s]
             qty == Line.quantity
             n == ReserveConsume(Line)
             row == view.row[s]
             b == view.balance[k]
             mid == IF n > 0 THEN AllocatedForShipment(b, row, n) ELSE b
             c == ApplyDelta(mid, -qty, 0, -n)
             r == IF n > 0 THEN Fulfilled(row, n) ELSE row
             d == Change(view, s, r, c)
  <2>1. Line \in ShipmentLine /\ s \in Slots /\ k \in Keys /\ tx.todo \in Seq(ShipmentLine)
        /\ tx.todo # << >> /\ tx.op = "postShipment"
    BY <1>0, <1>16, LineTypes, Zenon DEF ShipLine, Running, ShipmentLine, TypeOK
  <2>2. n \in Nat /\ -n \in Int /\ qty \in Nat /\ -qty \in Int
    BY <1>0, <2>1, TakenIsNat DEF ShipmentLine
  <2>3. b \in Balance
    BY <1>0, <2>1, Zenon DEF Database
  <2>4. /\ view' = [d EXCEPT !.ledger[k].issue = @ + qty]
        /\ UNCHANGED db /\ tx'.op = "postShipment" /\ tx'.todo = Tail(tx.todo)
    BY <1>16, <1>n, Zenon DEF ShipLine, Running
  <2> HIDE DEF n
  <2>5. mid \in Balance
    <3>1. n \in Int
      BY <2>2
    <3> QED BY <2>3, <3>1, ShipmentAllocationType, Zenon
  <2> HIDE DEF mid
  <2>6. c \in Balance
    <3>1. n \in Int /\ qty \in Int
      BY <2>2
    <3> QED BY <2>5, <3>1, IssueDeltaType, Zenon
  <2>7. r \in Reservation
    BY <1>r, <2>1, <2>2, ColumnTypes, Zenon
  <2> HIDE DEF c, r
  <2>8. /\ d \in Database /\ d.shipment = view.shipment
        /\ \A x \in Slots : x # s => d.row[x] = view.row[x]
    BY <1>0, <2>1, <2>6, <2>7, ChangeRows
  <2> HIDE DEF d
  <2>9. view'.row = d.row /\ view'.shipment = view.shipment
    BY <2>4, <2>8, Zenon DEF Database
  <2>10. /\ OneLinePerSlot(tx.todo)
         /\ \A i \in DOMAIN tx.todo : view.row[tx.todo[i].slot] = db.row[tx.todo[i].slot]
    BY <2>1, Zenon DEF FreshReads
  <2>11. /\ OneLinePerSlot(Tail(tx.todo))
         /\ \A i \in DOMAIN Tail(tx.todo) :
               /\ Tail(tx.todo)[i].slot # s
               /\ \E j \in DOMAIN tx.todo : Tail(tx.todo)[i] = tx.todo[j]
    BY <2>1, <2>10, TailLines, Zenon DEF Line
  <2>12. ASSUME NEW i \in DOMAIN Tail(tx.todo)
         PROVE  view'.row[Tail(tx.todo)[i].slot] = db.row[Tail(tx.todo)[i].slot]
    <3>1. \A j \in DOMAIN tx.todo : tx.todo[j] \in ShipmentLine
      BY <2>1
    <3>2. Tail(tx.todo)[i].slot \in Slots
      BY <2>11, <3>1, Zenon DEF ShipmentLine
    <3> QED BY <2>8, <2>9, <2>10, <2>11, <3>2
  <2> QED BY <1>0, <1>s, <2>4, <2>9, <2>11, <2>12 DEF FreshReads
<1>17. CASE CommitPostShipment
  <2>1. db' = [view EXCEPT !.shipment[tx.doc].status = "posted"] /\ view' = db' /\ tx' = Idle
    BY <1>17, Zenon DEF CommitPostShipment
  <2>2. \A h \in Shipments : db'.shipment[h].lines = view.shipment[h].lines
    BY <1>0, <2>1 DEF Database, Shipment
  <2>3. tx'.op = "idle"
    BY <2>1, Zenon DEF Idle
  <2> QED BY <1>a, <1>s, <2>1, <2>2, <2>3, Zenon
<1>18. ASSUME NEW form \in AdjustmentForms, BeginPostAdjustment(form) PROVE FreshReads'
  <2>1. tx'.op = "postAdjustment" /\ UNCHANGED <<db, view>>
    BY <1>18, Zenon DEF BeginPostAdjustment, Begin
  <2> QED BY <1>0, <1>s, <2>1, Zenon DEF FreshReads
<1>19. CASE AdjustLine
  <2>1. tx'.op = "postAdjustment" /\ UNCHANGED db /\ view'.shipment = view.shipment
    BY <1>0, <1>19, <1>n DEF AdjustLine, Running, Database
  <2> QED BY <1>0, <1>s, <2>1, Zenon DEF FreshReads
<1>20. CASE Commit
  <2>1. db' = view /\ view' = view /\ tx'.op = "idle"
    BY <1>20, Zenon DEF Commit, Idle
  <2> QED BY <1>a, <1>s, <2>1, Zenon
<1>21. CASE Abort
  <2>1. db' = db /\ view' = db /\ tx'.op = "idle"
    BY <1>21, Zenon DEF Abort, Idle
  <2> QED BY <1>a, <1>s, <2>1, Zenon
<1>22. CASE UNCHANGED vars
  BY <1>22, Zenon DEF vars, FreshReads, TypeOK, Line
<1> QED
  BY Zenon, <1>1, <1>2, <1>3, <1>4, <1>5, <1>6, <1>7, <1>8, <1>9, <1>10, <1>11, <1>12, <1>13, <1>14,
     <1>15, <1>16, <1>17, <1>18, <1>19, <1>20, <1>21, <1>22 DEF Next

-----------------------------------------------------------------------------
(* The columns follow the rows                                             *)

Reserved == {"RESERVED"}

Projected(d) ==
    \A k \in Keys :
        /\ d.balance[k].reserved + d.balance[k].allocated = Committed(d.row, k)
        /\ d.balance[k].reserved >= Cardinality(CommittedUnits(d.row, k, Reserved))

(* CommitmentsProjected and ReservedCovered made inductive.                *)
CommitmentsInv == FreshReads /\ Projected(db) /\ Projected(view)

(* An update whose two deltas add up to the change of the row's open       *)
(* quantity keeps the columns projected.                                   *)
LEMMA ProjectedChange ==
    ASSUME NEW d \in Database, Projected(d), NEW s \in Slots, NEW r \in Reservation,
           NEW c \in Balance, NEW x \in Int, NEW y \in Int,
           c.reserved = d.balance[KeyOf[s]].reserved + x,
           c.allocated = d.balance[KeyOf[s]].allocated + y,
           x + y = Count(r, ActiveStatuses) - Count(d.row[s], ActiveStatuses),
           x >= Count(r, Reserved) - Count(d.row[s], Reserved)
    PROVE  Projected(Change(d, s, r, c))
<1> DEFINE k == KeyOf[s]
           e == Change(d, s, r, c)
           Units(row, x1, statuses) == Cardinality(CommittedUnits(row, x1, statuses))
<1>1. /\ e \in Database /\ e.row[s] = r /\ \A z \in Slots : z # s => e.row[z] = d.row[z]
      /\ e.balance[k] = c /\ \A z \in Keys : z # k => e.balance[z] = d.balance[z]
  BY ChangeRows
<1> HIDE DEF e
<1>2. /\ k \in Keys /\ d.balance[k] \in Balance /\ d.row[s] \in Reservation
      /\ d.row \in [Slots -> Reservation] /\ e.row \in [Slots -> Reservation]
  BY <1>1, ConstantsAssumption, Zenon DEF Database
<1>3. /\ Units(e.row, k, ActiveStatuses)
            = Units(d.row, k, ActiveStatuses) - Count(d.row[s], ActiveStatuses) + Count(r, ActiveStatuses)
      /\ Units(e.row, k, Reserved) = Units(d.row, k, Reserved) - Count(d.row[s], Reserved) + Count(r, Reserved)
  BY <1>1, <1>2, CommittedUnitsChange, Zenon
<1>4. /\ Units(d.row, k, ActiveStatuses) \in Nat /\ Units(d.row, k, Reserved) \in Nat
  BY <1>2, CommittedUnitsFinite, Zenon
<1>5. /\ Count(d.row[s], ActiveStatuses) \in Nat /\ Count(r, ActiveStatuses) \in Nat
      /\ Count(d.row[s], Reserved) \in Nat /\ Count(r, Reserved) \in Nat
  BY <1>2, OpenIsNat, Zenon
<1>6. /\ d.balance[k].reserved \in Int /\ d.balance[k].allocated \in Int
  BY <1>2, Zenon DEF Balance
<1>7. /\ d.balance[k].reserved + d.balance[k].allocated = Units(d.row, k, ActiveStatuses)
      /\ d.balance[k].reserved >= Units(d.row, k, Reserved)
  BY <1>2, Zenon DEF Projected, Committed
<1> HIDE DEF Units
<1>8. /\ c.reserved + c.allocated = Units(e.row, k, ActiveStatuses)
      /\ c.reserved >= Units(e.row, k, Reserved)
  <2> DEFINE p == d.balance[k].reserved
             q == d.balance[k].allocated
             m == Units(d.row, k, ActiveStatuses)
             o == Units(d.row, k, Reserved)
             g == Count(d.row[s], ActiveStatuses)
             h == Count(r, ActiveStatuses)
             i == Count(d.row[s], Reserved)
             j == Count(r, Reserved)
  <2>1. c.reserved = p + x /\ c.allocated = q + y /\ x + y = h - g /\ x >= j - i
    BY Zenon
  <2>2. /\ Units(e.row, k, ActiveStatuses) = m - g + h
        /\ Units(e.row, k, Reserved) = o - i + j
    BY <1>3, Zenon
  <2>3. /\ p \in Int /\ q \in Int /\ m \in Int /\ o \in Int
        /\ g \in Int /\ h \in Int /\ i \in Int /\ j \in Int
    BY <1>4, <1>5, <1>6
  <2>4. p + q = m /\ p >= o
    BY <1>7, Zenon
  <2> HIDE DEF p, q, m, o, g, h, i, j
  <2>5. (p + x) + (q + y) = m - g + h /\ p + x >= o - i + j
    BY <2>1, <2>3, <2>4
  <2> QED BY <2>1, <2>2, <2>5, Zenon
<1>9. ASSUME NEW z \in Keys
      PROVE  /\ e.balance[z].reserved + e.balance[z].allocated = Committed(e.row, z)
             /\ e.balance[z].reserved >= Cardinality(CommittedUnits(e.row, z, Reserved))
  <2>1. CASE z = k
    BY <1>1, <1>8, <2>1, Zenon DEF Units, Committed
  <2>2. CASE z # k
    <3>1. CommittedUnits(e.row, z, ActiveStatuses) = CommittedUnits(d.row, z, ActiveStatuses)
          /\ CommittedUnits(e.row, z, Reserved) = CommittedUnits(d.row, z, Reserved)
      BY <1>1, <1>2, <2>2, CommittedUnitsOther
    <3>2. e.balance[z] = d.balance[z]
      BY <1>1, <2>2, Zenon
    <3> QED BY <3>1, <3>2 DEF Projected, Committed
  <2> QED BY <2>1, <2>2, Zenon
<1> QED BY <1>9, Zenon DEF Projected, e

(* What each move of a row does to its count.                              *)
LEMMA CountMoves ==
    ASSUME NEW r \in Reservation
    PROVE  /\ r.status = "RESERVED" =>
                /\ Count(r, ActiveStatuses) = Open(r) /\ Count(r, Reserved) = Open(r)
           /\ r.status = "ALLOCATED" =>
                /\ Count(r, ActiveStatuses) = Open(r) /\ Count(r, Reserved) = 0
           /\ ~Active(r) => Count(r, ActiveStatuses) = 0 /\ Count(r, Reserved) = 0
           /\ LET a == [r EXCEPT !.status = "ALLOCATED"] IN
                Count(a, ActiveStatuses) = Open(r) /\ Count(a, Reserved) = 0
           /\ \A st \in {"CANCELLED", "EXPIRED"} :
                LET a == [r EXCEPT !.status = st] IN
                Count(a, ActiveStatuses) = 0 /\ Count(a, Reserved) = 0
           /\ \A n \in Nat : n > 0 /\ n <= Open(r) =>
                LET a == Fulfilled(r, n) IN
                Count(a, ActiveStatuses) = Open(r) - n /\ Count(a, Reserved) = 0
<1> USE DEF Reserved, ActiveStatuses
<1>1. /\ r.status = "RESERVED" =>
             Count(r, ActiveStatuses) = Open(r) /\ Count(r, Reserved) = Open(r)
      /\ r.status = "ALLOCATED" =>
             Count(r, ActiveStatuses) = Open(r) /\ Count(r, Reserved) = 0
      /\ ~Active(r) => Count(r, ActiveStatuses) = 0 /\ Count(r, Reserved) = 0
  BY Zenon DEF Count, Active
<1>2. LET a == [r EXCEPT !.status = "ALLOCATED"] IN
      Count(a, ActiveStatuses) = Open(r) /\ Count(a, Reserved) = 0
  BY Zenon DEF Count, Open, Reservation
<1>3. \A st \in {"CANCELLED", "EXPIRED"} :
         LET a == [r EXCEPT !.status = st] IN
         Count(a, ActiveStatuses) = 0 /\ Count(a, Reserved) = 0
  BY Zenon DEF Count, Reservation
<1>4. ASSUME NEW n \in Nat, n > 0, n <= Open(r)
      PROVE  LET a == Fulfilled(r, n) IN
             Count(a, ActiveStatuses) = Open(r) - n /\ Count(a, Reserved) = 0
  <2> DEFINE total == r.fulfilled + n
             a == Fulfilled(r, n)
  <2>1. Open(r) = r.reserved - r.fulfilled /\ total <= r.reserved
    BY <1>4 DEF Open, AtLeastZero, Reservation
  <2>2. Least(r.reserved, total) = total
    BY <2>1 DEF Least, Reservation
  <2>3. /\ a.fulfilled = total /\ a.reserved = r.reserved
        /\ a.status = IF total = r.reserved THEN "FULFILLED" ELSE "ALLOCATED"
    BY <2>2, Zenon DEF Fulfilled, Reservation
  <2> HIDE DEF a
  <2>4. Open(a) = Open(r) - n
    BY <2>1, <2>3 DEF Open, AtLeastZero, Reservation
  <2>5. total = r.reserved => Open(r) - n = 0
    BY <2>1 DEF Reservation
  <2>6. Count(a, ActiveStatuses) = Open(r) - n /\ Count(a, Reserved) = 0
    BY <2>3, <2>4, <2>5, Zenon DEF Count
  <2> QED BY <2>6, Zenon DEF a
<1> QED BY <1>1, <1>2, <1>3, <1>4, Zenon

(* Every step keeps the commitment columns those of the rows.              *)
LEMMA CommitmentsStep ==
    ASSUME DistinctLines, NothingPrefulfilled
    PROVE  CommitmentsInv /\ [Next]_vars => CommitmentsInv'
<1> DEFINE Goal == Projected(db)' /\ Projected(view)'
<1> SUFFICES ASSUME CommitmentsInv, [Next]_vars PROVE Goal
  BY FreshReadsStep DEF CommitmentsInv
<1> USE ConstantsAssumption
<1>0. /\ TypeOK /\ db \in Database /\ view \in Database /\ tx \in Transaction
      /\ tx.op = "idle" => tx = Idle /\ view = db
      /\ FreshReads /\ Projected(db) /\ Projected(view)
  BY Zenon DEF CommitmentsInv, FreshReads, TypeOK
<1>r. \A s \in Slots : /\ db.row[s] \in Reservation /\ Open(db.row[s]) \in Nat
                       /\ view.row[s] \in Reservation /\ Open(view.row[s]) \in Nat
                       /\ db.balance[KeyOf[s]] \in Balance /\ view.balance[KeyOf[s]] \in Balance
  BY <1>0, OpenIsNat, Zenon DEF Database
<1>a. ASSUME UNCHANGED db, view'.row = view.row, view'.balance = view.balance PROVE Goal
  BY <1>0, <1>a DEF Projected
<1>b. ASSUME NEW d, Install(d), Projected(d) PROVE Goal
  BY <1>b, Zenon DEF Install, Projected
<1>c. ASSUME UNCHANGED db, NEW d, view'.row = d.row, view'.balance = d.balance, Projected(d) PROVE Goal
  BY <1>0, <1>c, Zenon DEF Projected
<1>d. ASSUME NEW s \in Slots, NEW r \in Reservation, NEW x \in Int, NEW y \in Int,
             Transition(s, r, x, y),
             x + y = Count(r, ActiveStatuses) - Count(db.row[s], ActiveStatuses),
             x >= Count(r, Reserved) - Count(db.row[s], Reserved)
      PROVE  Goal
  <2> DEFINE b == db.balance[KeyOf[s]]
             c == ApplyDelta(b, 0, x, y)
  <2>1. Install(Change(db, s, r, c))
    BY <1>d, Zenon DEF Transition
  <2>2. c \in Balance /\ c.reserved = b.reserved + x /\ c.allocated = b.allocated + y
    BY <1>r, SMTT(20) DEF ApplyDelta, Balance
  <2> HIDE DEF c
  <2>3. Projected(Change(db, s, r, c))
    BY <1>0, <1>d, <2>2, ProjectedChange
  <2> QED BY <1>b, <2>1, <2>3
<1>1. ASSUME NEW request \in ReservationRequests, BeginCreateReservations(request) PROVE Goal
  BY <1>1, <1>a, Zenon DEF BeginCreateReservations
<1>2. CASE ReserveLineReplayed
  BY <1>2, <1>a DEF ReserveLineReplayed
<1>3. CASE ReserveLineWithoutInsert
  <2>1. view'.row = view.row /\ view'.balance = view.balance
    BY <1>0, <1>3, Zenon DEF ReserveLineWithoutInsert, Database
  <2> QED BY <1>3, <1>a, <2>1, Zenon DEF ReserveLineWithoutInsert
<1>4. CASE ReserveLine
  <2> DEFINE s == Line.slot
             k == KeyOf[s]
             q == ReserveQty(Line, Available(view, k))
             r == NewReservation(Line, q)
             b == view.balance[k]
             c == ApplyDelta(b, 0, q, 0)
             d == Change(view, s, r, c)
  <2>1. Line \in ReservationLine /\ s \in Slots /\ k \in Keys
    BY <1>0, <1>4, LineTypes, Zenon DEF ReserveLine, Running, ReservationLine
  <2>2. q \in Nat /\ q \in Int /\ 0 \in Int
    BY <1>0, <2>1, AvailableIsInt, TakenIsNat, SMTT(20)
  <2>3. /\ view' = [d EXCEPT !.backorder = BackorderAfter(view, Line, q)]
        /\ view.row[s].status = "NONE" /\ UNCHANGED db
        /\ tx.op = "createReservations" /\ tx.todo # << >>
    BY <1>4, Zenon DEF ReserveLine, Running
  <2> HIDE DEF q
  <2>4. Line.quantityFulfilled = 0
    <3>1. tx.todo \in Seq(FreshLine)
      BY <1>0, <2>3, Zenon DEF FreshReads
    <3>2. tx.todo # << >>
      BY <2>3
    <3>3. Line \in FreshLine
      BY <3>1, <3>2 DEF Line
    <3> QED BY <3>3, Zenon DEF FreshLine
  <2>5. r \in Reservation
    BY <2>1, <2>2, ColumnTypes, Zenon
  <2>6. r.status = "RESERVED" /\ Open(r) = q
    BY <2>2, <2>4, SMTT(20) DEF NewReservation, Open, AtLeastZero, Least
  <2>7. c \in Balance /\ c.reserved = b.reserved + q /\ c.allocated = b.allocated + 0
    BY <1>r, <2>1, <2>2, SMTT(20) DEF ApplyDelta, Balance
  <2> HIDE DEF r, c
  <2>8. /\ Count(r, ActiveStatuses) = q /\ Count(r, Reserved) = q
        /\ Count(view.row[s], ActiveStatuses) = 0 /\ Count(view.row[s], Reserved) = 0
    <3>1. ~Active(view.row[s])
      BY <2>3 DEF Active, ActiveStatuses
    <3> QED BY <1>r, <2>1, <2>5, <2>6, <3>1, CountMoves, Zenon
  <2>9. /\ q + 0 = Count(r, ActiveStatuses) - Count(view.row[s], ActiveStatuses)
        /\ q >= Count(r, Reserved) - Count(view.row[s], Reserved)
    BY <2>2, <2>8
  <2>10. Projected(d)
    BY <1>0, <2>1, <2>2, <2>5, <2>7, <2>9, ProjectedChange, Zenon
  <2>11. d \in Database
    BY <1>0, <2>1, <2>5, <2>7, ChangeRows, SMTT(20)
  <2> HIDE DEF d
  <2>12. view'.row = d.row /\ view'.balance = d.balance
    BY <2>3, <2>11, Zenon DEF Database
  <2> QED BY <1>c, <2>3, <2>10, <2>12
<1>5. ASSUME NEW s \in Slots, AllocateReservation(s) PROVE Goal
  <2> DEFINE r == [db.row[s] EXCEPT !.status = "ALLOCATED"]
             n == Open(db.row[s])
  <2>1. r \in Reservation
    BY <1>r, ColumnTypes, Zenon DEF Statuses, ActiveStatuses
  <2>2. -n \in Int /\ n \in Int /\ n >= 0
    BY <1>r
  <2>3. Transition(s, r, -n, n) /\ db.row[s].status = "RESERVED"
    BY <1>5, Zenon DEF AllocateReservation
  <2>4. /\ Count(r, ActiveStatuses) = n /\ Count(r, Reserved) = 0
        /\ Count(db.row[s], ActiveStatuses) = n /\ Count(db.row[s], Reserved) = n
    BY <1>r, <2>3, CountMoves, Zenon
  <2> HIDE DEF r, n
  <2>5. /\ -n + n = Count(r, ActiveStatuses) - Count(db.row[s], ActiveStatuses)
        /\ -n >= Count(r, Reserved) - Count(db.row[s], Reserved)
    BY <2>2, <2>4
  <2> QED BY <1>d, <2>1, <2>2, <2>3, <2>5, Zenon
<1>6. ASSUME NEW s \in Slots, CancelReservation(s) PROVE Goal
  <2> DEFINE r == [db.row[s] EXCEPT !.status = "CANCELLED"]
             n == Open(db.row[s])
             x == IF db.row[s].status = "RESERVED" THEN -n ELSE 0
             y == IF db.row[s].status = "ALLOCATED" THEN -n ELSE 0
  <2>1. r \in Reservation
    BY <1>r, ColumnTypes, Zenon DEF Statuses, ActiveStatuses
  <2>2. x \in Int /\ y \in Int /\ n \in Nat
    BY <1>r
  <2>3. Transition(s, r, x, y) /\ db.row[s].status \in {"RESERVED", "ALLOCATED"}
    BY <1>6, Zenon DEF CancelReservation, Active, ActiveStatuses
  <2>4. /\ Count(r, ActiveStatuses) = 0 /\ Count(r, Reserved) = 0
        /\ Count(db.row[s], ActiveStatuses) = n
        /\ db.row[s].status = "RESERVED" => Count(db.row[s], Reserved) = n
        /\ db.row[s].status = "ALLOCATED" => Count(db.row[s], Reserved) = 0
    BY <1>r, <2>3, CountMoves, Zenon
  <2> HIDE DEF r, n
  <2>5. /\ x + y = Count(r, ActiveStatuses) - Count(db.row[s], ActiveStatuses)
        /\ x >= Count(r, Reserved) - Count(db.row[s], Reserved)
    BY <2>2, <2>3, <2>4
  <2> HIDE DEF x, y
  <2> QED BY <1>d, <2>1, <2>2, <2>3, <2>5, SMTT(20)
<1>7. ASSUME NEW s \in Slots, NEW q \in FulfillQuantities, FulfillReservation(s, q) PROVE Goal
  <2> DEFINE n == Least(q, Open(db.row[s]))
             r == Fulfilled(db.row[s], n)
  <2>1. /\ Transition(s, r, 0, -n) /\ db.row[s].status = "ALLOCATED" /\ Open(db.row[s]) > 0
    BY <1>7, Zenon DEF FulfillReservation
  <2>2. n \in Nat /\ -n \in Int /\ 0 \in Int /\ n > 0 /\ n <= Open(db.row[s])
    <3>1. q \in Nat \ {0} /\ Open(db.row[s]) \in Nat /\ Open(db.row[s]) > 0
      BY <1>r, <2>1, ConstantsAssumption, Zenon
    <3> QED BY <3>1 DEF Least
  <2> HIDE DEF n
  <2>3. r \in Reservation
    BY <1>r, <2>2, ColumnTypes
  <2>4. /\ Count(r, ActiveStatuses) = Open(db.row[s]) - n /\ Count(r, Reserved) = 0
        /\ Count(db.row[s], ActiveStatuses) = Open(db.row[s]) /\ Count(db.row[s], Reserved) = 0
    BY <1>r, <2>1, <2>2, CountMoves, Zenon
  <2> HIDE DEF r
  <2>5. /\ 0 + (-n) = Count(r, ActiveStatuses) - Count(db.row[s], ActiveStatuses)
        /\ 0 >= Count(r, Reserved) - Count(db.row[s], Reserved)
    BY <1>r, <2>2, <2>4
  <2> QED BY <1>d, <2>1, <2>2, <2>3, <2>5, Zenon
<1>8. ASSUME NEW s \in Slots, TimePasses(s) PROVE Goal
  <2> DEFINE r == [db.row[s] EXCEPT !.expiry = "due"]
             d == [db EXCEPT !.row[s] = [@ EXCEPT !.expiry = "due"]]
             b == db.balance[KeyOf[s]]
  <2>1. r \in Reservation /\ Open(r) = Open(db.row[s]) /\ r.status = db.row[s].status
    BY <1>r, Zenon DEF Reservation, Open
  <2>2. Install(d)
    BY <1>8, Zenon DEF TimePasses
  <2>3. d = Change(db, s, r, b)
    BY <1>0, Zenon DEF Change, Database
  <2> HIDE DEF r, d
  <2>4. 0 + 0 = Count(r, ActiveStatuses) - Count(db.row[s], ActiveStatuses)
        /\ 0 >= Count(r, Reserved) - Count(db.row[s], Reserved)
    BY <1>r, <2>1 DEF Count
  <2>5. b \in Balance /\ b.reserved = b.reserved + 0 /\ b.allocated = b.allocated + 0 /\ 0 \in Int
    BY <1>r DEF Balance
  <2>6. Projected(d)
    BY <1>0, <2>1, <2>3, <2>4, <2>5, ProjectedChange, Zenon
  <2> QED BY <1>b, <2>2, <2>6
<1>9. ASSUME NEW due \in SUBSET Slots, BeginExpire(due) PROVE Goal
  BY <1>9, <1>a, Zenon DEF BeginExpire
<1>10. ASSUME NEW s \in Slots, ExpireRow(s) PROVE Goal
  <2> DEFINE r == [view.row[s] EXCEPT !.status = "EXPIRED"]
             n == Open(view.row[s])
             b == view.balance[KeyOf[s]]
             c == ApplyDelta(b, 0, -n, 0)
  <2>1. tx.op = "expire" /\ s \in tx.due /\ UNCHANGED db /\ view' = Change(view, s, r, c)
    BY <1>10, Zenon DEF ExpireRow
  <2>2. view.row[s].status = "RESERVED"
    BY <1>0, <2>1, Zenon DEF FreshReads
  <2>3. r \in Reservation
    BY <1>r, ColumnTypes, Zenon DEF Statuses, ActiveStatuses
  <2>4. n \in Nat /\ -n \in Int /\ 0 \in Int
    BY <1>r
  <2>5. /\ Count(r, ActiveStatuses) = 0 /\ Count(r, Reserved) = 0
        /\ Count(view.row[s], ActiveStatuses) = n /\ Count(view.row[s], Reserved) = n
    BY <1>r, <2>2, CountMoves, Zenon
  <2> HIDE DEF n
  <2>6. c \in Balance /\ c.reserved = b.reserved + (-n) /\ c.allocated = b.allocated + 0
    BY <1>r, <2>4 DEF ApplyDelta, Balance
  <2> HIDE DEF r, c
  <2>7. /\ -n + 0 = Count(r, ActiveStatuses) - Count(view.row[s], ActiveStatuses)
        /\ -n >= Count(r, Reserved) - Count(view.row[s], Reserved)
    BY <2>4, <2>5
  <2>8. Projected(Change(view, s, r, c))
    BY <1>0, <2>3, <2>4, <2>6, <2>7, ProjectedChange, Zenon
  <2> QED BY <1>c, <2>1, <2>8
<1>11. ASSUME NEW h \in Shipments, NEW form \in ShipmentForms, CreateShipment(h, form) PROVE Goal
  <2> DEFINE d == [db EXCEPT !.shipment[h] = Draft(form)]
  <2>1. Install(d) /\ d.row = db.row /\ d.balance = db.balance
    BY <1>0, <1>11, Zenon DEF CreateShipment, Database
  <2> HIDE DEF d
  <2>2. Projected(d)
    BY <1>0, <2>1, Zenon DEF Projected
  <2> QED BY <1>b, <2>1, <2>2
<1>12. ASSUME NEW h \in Shipments, NEW form \in ShipmentForms, BeginCreateShipment(h, form) PROVE Goal
  <2>1. view'.row = view.row /\ view'.balance = view.balance /\ UNCHANGED db
    BY <1>0, <1>12, Zenon DEF BeginCreateShipment, Database
  <2> QED BY <1>a, <2>1
<1>13. CASE AutoAllocateLineSkipped
  BY <1>13, <1>a, Zenon DEF AutoAllocateLineSkipped
<1>14. CASE AutoAllocateLine
  <2> DEFINE s == Line.slot
             n == Open(db.row[s])
             r == [view.row[s] EXCEPT !.status = "ALLOCATED"]
             b == view.balance[KeyOf[s]]
             c == ApplyDelta(b, 0, -n, n)
  <2>1. s \in Slots
    BY <1>0, <1>14, LineTypes DEF AutoAllocateLine, Running, ShipmentLine
  <2>2. r \in Reservation
    BY <1>r, <2>1, ColumnTypes, Zenon DEF Statuses, ActiveStatuses
  <2>3. /\ view' = Change(view, s, r, c) /\ UNCHANGED db /\ view.row[s].status = "RESERVED"
        /\ tx.op = "createShipment"
    BY <1>14, SMTT(20) DEF AutoAllocateLine, Running
  <2>4. n = Open(view.row[s])
    BY <1>0, <2>1, <2>3 DEF FreshReads, Open
  <2>5. n \in Nat /\ n \in Int /\ -n \in Int
    BY <1>r, <2>1
  <2>6. /\ Count(r, ActiveStatuses) = n /\ Count(r, Reserved) = 0
        /\ Count(view.row[s], ActiveStatuses) = n /\ Count(view.row[s], Reserved) = n
    BY <1>r, <2>1, <2>3, <2>4, CountMoves, Zenon
  <2> HIDE DEF n
  <2>7. c \in Balance /\ c.reserved = b.reserved + (-n) /\ c.allocated = b.allocated + n
    BY <1>r, <2>1, <2>5, SMTT(30) DEF ApplyDelta, Balance
  <2> HIDE DEF r, c
  <2>8. /\ -n + n = Count(r, ActiveStatuses) - Count(view.row[s], ActiveStatuses)
        /\ -n >= Count(r, Reserved) - Count(view.row[s], Reserved)
    BY <2>5, <2>6
  <2>9. Projected(Change(view, s, r, c))
    BY <1>0, <2>1, <2>2, <2>5, <2>7, <2>8, ProjectedChange, Zenon
  <2> QED BY <1>c, <2>3, <2>9
<1>15. ASSUME NEW h \in Shipments, BeginPostShipment(h) PROVE Goal
  BY <1>15, <1>a DEF BeginPostShipment
<1>16. CASE ShipLine
  <2> DEFINE s == Line.slot
             k == KeyOf[s]
             qty == Line.quantity
             n == ReserveConsume(Line)
             row == view.row[s]
             b == view.balance[k]
             mid == IF n > 0 THEN AllocatedForShipment(b, row, n) ELSE b
             c == ApplyDelta(mid, -qty, 0, -n)
             r == IF n > 0 THEN Fulfilled(row, n) ELSE row
             d == Change(view, s, r, c)
             x == IF n > 0 /\ row.status = "RESERVED" THEN -n ELSE 0
             y == IF n > 0 /\ row.status = "RESERVED" THEN 0 ELSE -n
  <2>1. Line \in ShipmentLine /\ s \in Slots /\ k \in Keys /\ tx.todo \in Seq(ShipmentLine)
        /\ tx.todo # << >> /\ tx.op = "postShipment"
    BY <1>0, <1>16, LineTypes, Zenon DEF ShipLine, Running, ShipmentLine, TypeOK
  <2>2. n \in Nat /\ -n \in Int /\ qty \in Nat /\ -qty \in Int
    BY <1>0, <2>1, TakenIsNat DEF ShipmentLine
  <2>3. b \in Balance
    BY <1>0, <2>1, Zenon DEF Database
  <2>4. /\ view' = [d EXCEPT !.ledger[k].issue = @ + qty]
        /\ n > 0 => row.status \in {"RESERVED", "ALLOCATED"}
        /\ UNCHANGED db
    BY <1>16, Zenon DEF ShipLine, Active, ActiveStatuses
  <2>5. row = db.row[s]
    <3>1. /\ OneLinePerSlot(tx.todo)
          /\ \A i \in DOMAIN tx.todo : view.row[tx.todo[i].slot] = db.row[tx.todo[i].slot]
      BY <1>0, <2>1 DEF FreshReads
    <3>2. 1 \in DOMAIN tx.todo /\ Line = tx.todo[1]
      BY <2>1, <3>1, TailLines, Zenon DEF Line
    <3> QED BY <3>1, <3>2, SMTT(20)
  <2>6. n <= Open(row)
    BY <1>r, <2>1, <2>5 DEF ReserveConsume, Least, ShipmentLine
  <2> HIDE DEF n
  <2>7. mid \in Balance /\ mid.reserved = b.reserved + x
        /\ mid.allocated = IF n > 0 /\ row.status = "RESERVED" THEN b.allocated + n ELSE b.allocated
    <3>1. n \in Int /\ b.reserved \in Int
      BY <2>2, <2>3, SMTT(20) DEF Balance
    <3>2. CASE n > 0 /\ row.status = "RESERVED"
      <4>1. mid = AllocatedForShipment(b, row, n) /\ x = -n
        BY <3>2, Zenon
      <4>2. mid \in Balance /\ mid.reserved = b.reserved + (-n) /\ mid.allocated = b.allocated + n
        <5>1. b \in Balance /\ n \in Int /\ row.status = "RESERVED"
          BY <2>3, <3>1, <3>2
        <5> HIDE DEF b, row, mid
        <5>2. LET a == AllocatedForShipment(b, row, n) IN
              a \in Balance /\ a.reserved = b.reserved + (-n) /\ a.allocated = b.allocated + n
          BY <5>1, ShipmentAllocationType, SMTT(20)
        <5> QED BY <4>1, <5>2, SMTT(20)
      <4> HIDE DEF x, mid
      <4> QED BY <3>2, <4>1, <4>2
    <3>3. CASE ~(n > 0 /\ row.status = "RESERVED")
      <4>1. mid = b
        BY <2>3, <3>1, <3>3, ShipmentAllocationType, Zenon
      <4>2. x = 0
        BY <3>3
      <4> HIDE DEF x, mid
      <4> QED BY <2>3, <3>1, <3>3, <4>1, <4>2, SMTT(20)
    <3> QED BY <3>2, <3>3, Zenon
  <2> HIDE DEF mid
  <2>8. c \in Balance /\ c.reserved = mid.reserved + 0 /\ c.allocated = mid.allocated + (-n)
    <3>1. n \in Int /\ qty \in Int
      BY <2>2
    <3>2. mid \in Balance
      BY <2>7, Zenon
    <3> HIDE DEF qty
    <3> QED BY <3>1, <3>2, IssueDeltaType
  <2> HIDE DEF c
  <2>9. c.reserved = b.reserved + x /\ c.allocated = b.allocated + y /\ x \in Int /\ y \in Int
    <3>1. b.reserved \in Int /\ b.allocated \in Int
      BY <2>3 DEF Balance
    <3> HIDE DEF b
    <3>2. CASE n > 0 /\ row.status = "RESERVED"
      <4>1. x = -n /\ y = 0 /\ mid.allocated = b.allocated + n /\ mid.reserved = b.reserved + x
        BY <2>7, <3>2, Zenon
      <4> HIDE DEF x, y
      <4> QED BY <2>2, <2>8, <3>1, <4>1
    <3>3. CASE ~(n > 0 /\ row.status = "RESERVED")
      <4>1. x = 0 /\ y = -n /\ mid.allocated = b.allocated /\ mid.reserved = b.reserved + x
        BY <2>7, <3>3, Zenon
      <4> HIDE DEF x, y
      <4> QED BY <2>2, <2>8, <3>1, <4>1
    <3> QED BY <3>2, <3>3, SMTT(20)
  <2>10. r \in Reservation
    BY <1>r, <2>1, <2>2, ColumnTypes, Zenon
  <2>11. /\ x + y = Count(r, ActiveStatuses) - Count(row, ActiveStatuses)
         /\ x >= Count(r, Reserved) - Count(row, Reserved)
    <3>1. row \in Reservation /\ Open(row) \in Nat
      BY <1>r, <2>1, Zenon
    <3>2. CASE n > 0
      <4>1. Count(r, ActiveStatuses) = Open(row) - n /\ Count(r, Reserved) = 0
        BY <2>2, <2>6, <3>1, <3>2, CountMoves, Zenon
      <4>2. /\ Count(row, ActiveStatuses) = Open(row)
            /\ Count(row, Reserved) = IF row.status = "RESERVED" THEN Open(row) ELSE 0
        BY <2>4, <3>1, <3>2, CountMoves, Zenon
      <4> HIDE DEF r
      <4> QED BY <2>2, <2>6, <3>1, <3>2, <4>1, <4>2
    <3>3. CASE ~(n > 0)
      <4>1. Count(row, ActiveStatuses) \in Nat /\ Count(row, Reserved) \in Nat
        BY <3>1, OpenIsNat, Zenon
      <4>2. r = row
        BY <3>3, Zenon
      <4> HIDE DEF r
      <4> QED BY <2>2, <3>3, <4>1, <4>2
    <3> QED BY <3>2, <3>3
  <2> HIDE DEF r, x, y
  <2>12. Projected(d)
    BY <1>0, <2>1, <2>8, <2>9, <2>10, <2>11, ProjectedChange, Zenon
  <2>13. d \in Database
    BY <1>0, <2>1, <2>8, <2>10, ChangeRows, Zenon
  <2> HIDE DEF d
  <2>14. view'.row = d.row /\ view'.balance = d.balance
    BY <2>4, <2>13 DEF Database
  <2> QED BY <1>c, <2>4, <2>12, <2>14, Zenon
<1>17. CASE CommitPostShipment
  <2>1. db' = [view EXCEPT !.shipment[tx.doc].status = "posted"] /\ view' = db'
    BY <1>17, Zenon DEF CommitPostShipment
  <2>2. db'.row = view.row /\ db'.balance = view.balance
    BY <1>0, <2>1 DEF Database
  <2> QED BY <1>0, <2>1, <2>2, Zenon DEF Projected
<1>18. ASSUME NEW form \in AdjustmentForms, BeginPostAdjustment(form) PROVE Goal
  BY <1>18, <1>a DEF BeginPostAdjustment
<1>19. CASE AdjustLine
  <2> DEFINE k == Line.key
             n == Line.delta
  <2>1. k \in Keys /\ n \in Int /\ view.balance[k] \in Balance /\ view.balance \in [Keys -> Balance]
    BY <1>0, <1>19, LineTypes DEF AdjustLine, Running, AdjustmentLine, Database
  <2>2. view'.row = view.row /\ UNCHANGED db
        /\ view'.balance = [view.balance EXCEPT ![k] = ApplyDelta(@, n, 0, 0)]
    BY <1>0, <1>19, Zenon DEF AdjustLine, Database
  <2>3. ApplyDelta(view.balance[k], n, 0, 0).reserved = view.balance[k].reserved
        /\ ApplyDelta(view.balance[k], n, 0, 0).allocated = view.balance[k].allocated
    BY <2>1 DEF ApplyDelta, Balance
  <2>4. \A z \in Keys : /\ view'.balance[z].reserved = view.balance[z].reserved
                         /\ view'.balance[z].allocated = view.balance[z].allocated
    BY <2>1, <2>2, <2>3
  <2> QED BY <1>0, <2>2, <2>4, Zenon DEF Projected
<1>20. CASE Commit
  BY <1>0, <1>20, Zenon DEF Commit, Projected
<1>21. CASE Abort
  BY <1>0, <1>21, Zenon DEF Abort, Projected
<1>22. CASE UNCHANGED vars
  BY <1>0, <1>22 DEF vars, Projected
<1> QED
  BY Zenon, <1>1, <1>2, <1>3, <1>4, <1>5, <1>6, <1>7, <1>8, <1>9, <1>10, <1>11, <1>12, <1>13, <1>14,
     <1>15, <1>16, <1>17, <1>18, <1>19, <1>20, <1>21, <1>22 DEF Next

(* The empty database has no commitments.                                  *)
LEMMA InitCommitments == Init => CommitmentsInv /\ StockInv
<1> SUFFICES ASSUME Init PROVE CommitmentsInv /\ StockInv
  BY Zenon
<1>1. TypeOK /\ db = EmptyDatabase /\ view = EmptyDatabase /\ tx = Idle
  BY InitTypeOK DEF Init
<1>2. FreshReads
  BY <1>1 DEF FreshReads, EmptyDatabase, OneLinePerSlot, Idle
<1>3. ASSUME NEW k \in Keys, NEW statuses \in {ActiveStatuses, Reserved}
      PROVE  Cardinality(CommittedUnits(EmptyDatabase.row, k, statuses)) = 0
  <2>1. "NONE" \notin statuses
    BY DEF ActiveStatuses, Reserved
  <2>2. \A s \in Slots : EmptyDatabase.row[s].status = "NONE"
    BY Zenon DEF EmptyDatabase, NoReservation
  <2>3. CommittedUnits(EmptyDatabase.row, k, statuses) = {}
    BY <2>1, <2>2 DEF CommittedUnits
  <2> QED BY <2>3, FS_EmptySet, Zenon
<1>4. Projected(EmptyDatabase)
  <2>1. \A k \in Keys : EmptyDatabase.balance[k].reserved = 0 /\ EmptyDatabase.balance[k].allocated = 0
    BY Zenon DEF EmptyDatabase
  <2> QED BY <1>3, <2>1 DEF Projected, Committed
<1>5. Sound(EmptyDatabase)
  BY DEF Sound, EmptyDatabase, OnHand
<1> QED BY <1>1, <1>2, <1>4, <1>5, Zenon DEF CommitmentsInv, StockInv

(* Through every interleaving of create, allocate, cancel, fulfill, expire *)
(* and ship, with failures at any line, reserved + allocated of            *)
(* inventory_balance is the open quantity of the active reservations.      *)
THEOREM CommitmentsAreProjected ==
    ASSUME DistinctLines, NothingPrefulfilled
    PROVE  Spec => []CommitmentsProjected
<1>1. CommitmentsInv => CommitmentsProjected
  BY Zenon DEF CommitmentsInv, Projected, CommitmentsProjected
<1>2. CommitmentsInv /\ [Next]_vars => CommitmentsInv'
  BY CommitmentsStep, Zenon
<1> QED BY <1>1, <1>2, InitCommitments, PTL DEF Spec

(* The reserved column covers the RESERVED rows, so cancelling or expiring *)
(* one of them never fails on RESERVED_NEGATIVE.                           *)
THEOREM ReservedIsCovered ==
    ASSUME DistinctLines, NothingPrefulfilled
    PROVE  Spec => []ReservedCovered
<1>1. CommitmentsInv => ReservedCovered
  BY DEF CommitmentsInv, Projected, ReservedCovered, Reserved
<1>2. CommitmentsInv /\ [Next]_vars => CommitmentsInv'
  BY CommitmentsStep, Zenon
<1> QED BY <1>1, <1>2, InitCommitments, PTL DEF Spec

(* Promised stock is on hand: the canonical availability of the views,     *)
(* which no handler locks, is never negative.  It follows from the         *)
(* projection being sound and following both the ledger and the rows.      *)
THEOREM StockIsNeverOversold ==
    ASSUME DistinctLines, NothingPrefulfilled
    PROVE  Spec => []NeverOversold
<1>1. CommitmentsInv /\ StockInv => NeverOversold
  <2> SUFFICES ASSUME CommitmentsInv, StockInv, NEW k \in Keys PROVE Available(db, k) >= 0
    BY Zenon DEF NeverOversold
  <2>1. /\ db.balance[k].reserved + db.balance[k].allocated = Committed(db.row, k)
        /\ db.balance[k].onHand = OnHand(db.ledger[k])
        /\ db.balance[k].reserved + db.balance[k].allocated <= db.balance[k].onHand
    BY Zenon DEF CommitmentsInv, StockInv, Projected, Sound
  <2>2. db.balance[k] \in Balance
    BY DEF StockInv, TypeOK, Database
  <2> QED BY <2>1, <2>2 DEF Available, Balance
<1>2. CommitmentsInv /\ [Next]_vars => CommitmentsInv'
  BY CommitmentsStep, Zenon
<1> QED BY <1>1, <1>2, InitCommitments, StockStep, PTL DEF Spec

-----------------------------------------------------------------------------
(* Stock issued and shipments posted                                       *)

(* Every unit a database has issued belongs to a posted shipment.          *)
Issued(d) == \A k \in Keys : d.ledger[k].issue = PostedQuantity(d.shipment, k)

(* A posting has issued the lines of its draft that it no longer has to    *)
(* do, and has not touched the document.                                   *)
HalfIssued ==
    /\ view.shipment = db.shipment
    /\ db.shipment[tx.doc].status = "draft"
    /\ \A k \in Keys :
          view.ledger[k].issue + ShippedQuantity(tx.todo, k)
              = db.ledger[k].issue + ShippedQuantity(db.shipment[tx.doc].lines, k)

(* ShipmentsIssuedOnce made inductive: between two lines of a posting the  *)
(* ledger of the transaction is ahead of the documents.                    *)
IssueInv ==
    /\ TypeOK
    /\ Issued(db)
    /\ IF tx.op = "postShipment" THEN HalfIssued ELSE Issued(view)

(* What the lines of a shipment ship is a natural number, none for no line. *)
LEMMA ShippedType ==
    ASSUME NEW lines \in Seq(ShipmentLine), NEW k
    PROVE  /\ ShippedQuantity(lines, k) \in Nat
           /\ lines = << >> => ShippedQuantity(lines, k) = 0
<1> DEFINE f == [i \in DOMAIN lines |-> lines[i].quantity]
           S == {i \in DOMAIN lines : KeyOf[lines[i].slot] = k}
<1>1. DOMAIN lines = 1..Len(lines) /\ Len(lines) \in Nat
  OBVIOUS
<1>2. IsFiniteSet(DOMAIN lines) /\ S \subseteq DOMAIN lines
  BY <1>1, FS_Interval
<1>3. IsFiniteSet(S)
  BY <1>2, FS_Subset, Zenon
<1>4. \A i \in S : f[i] \in Nat
  <2>1. \A i \in DOMAIN lines : lines[i] \in ShipmentLine
    OBVIOUS
  <2>2. \A i \in DOMAIN lines : lines[i].quantity \in Nat
    BY <2>1, Zenon DEF ShipmentLine
  <2> QED BY <2>2, Zenon
<1>5. lines = << >> => S = {}
  BY <1>1
<1>6. ShippedQuantity(lines, k) = SumFunctionOnSet(f, S)
  BY Zenon DEF ShippedQuantity
<1> HIDE DEF f, S
<1>7. SumFunctionOnSet(f, S) \in Nat
  BY <1>3, <1>4, SumIsNatural, Zenon
<1>8. lines = << >> => SumFunctionOnSet(f, S) = 0
  BY <1>5, SumEmpty
<1> QED BY <1>6, <1>7, <1>8, Zenon

(* What a shipment ships is what its first line ships and what the others  *)
(* do.                                                                     *)
LEMMA ShippedTail ==
    ASSUME NEW lines \in Seq(ShipmentLine), lines # << >>, NEW k
    PROVE  ShippedQuantity(lines, k)
               = ShippedQuantity(Tail(lines), k)
                 + (IF KeyOf[Head(lines).slot] = k THEN Head(lines).quantity ELSE 0)
<1> DEFINE rest == Tail(lines)
           n == Len(lines)
           f == [i \in DOMAIN lines |-> lines[i].quantity]
           S == {i \in DOMAIN lines : KeyOf[lines[i].slot] = k}
           g == [i \in DOMAIN rest |-> rest[i].quantity]
           T == {i \in DOMAIN rest : KeyOf[rest[i].slot] = k}
           b == [i \in DOMAIN rest |-> i + 1]
<1>1. /\ n \in Nat /\ n > 0 /\ DOMAIN lines = 1..n /\ DOMAIN rest = 1..(n - 1)
      /\ \A i \in 1..(n - 1) : rest[i] = lines[i + 1]
      /\ Head(lines) = lines[1]
  OBVIOUS
<1>2. \A i \in DOMAIN lines : lines[i].quantity \in Nat
  <2>1. \A i \in DOMAIN lines : lines[i] \in ShipmentLine
    OBVIOUS
  <2> QED BY <2>1, Zenon DEF ShipmentLine
<1>3. ShippedQuantity(lines, k) = SumFunctionOnSet(f, S)
      /\ ShippedQuantity(rest, k) = SumFunctionOnSet(g, T)
  BY Zenon DEF ShippedQuantity
<1> HIDE DEF n, rest
<1>4. \A i \in 1..(n - 1) : i \in Int /\ i + 1 \in 1..n /\ i + 1 # 1
  BY <1>1
<1>5. S \ {1} = {b[i] : i \in T}
  <2>1. ASSUME NEW j \in S \ {1} PROVE j \in {b[i] : i \in T}
    <3>1. j - 1 \in 1..(n - 1) /\ (j - 1) + 1 = j
      BY <1>1
    <3>2. j - 1 \in T /\ b[j - 1] = j
      BY <1>1, <3>1, Zenon
    <3> QED BY <3>2, Zenon
  <2>2. ASSUME NEW i \in T PROVE b[i] \in S \ {1}
    BY <1>1, <1>4, Zenon
  <2> QED BY <2>1, <2>2
<1>6. \A x, y \in T : b[x] = b[y] => x = y
  <2>1. \A x, y \in T : b[x] = x + 1 /\ b[y] = y + 1 /\ x \in Int /\ y \in Int
    BY <1>1, <1>4
  <2> HIDE DEF b, T
  <2> QED BY <2>1
<1>7. \A x \in T : f[b[x]] \in Int /\ g[x] = f[b[x]]
  BY <1>1, <1>2, <1>4
<1>8. IsFiniteSet(S) /\ IsFiniteSet(T)
  <2>1. IsFiniteSet(1..n) /\ IsFiniteSet(1..(n - 1))
    BY <1>1, FS_Interval
  <2>2. S \subseteq 1..n /\ T \subseteq 1..(n - 1)
    BY <1>1, Zenon
  <2> HIDE DEF S, T
  <2> QED BY <2>1, <2>2, FS_Subset, Zenon
<1>9. \A i \in S : f[i] \in Int
  BY <1>2
<1>10. f[1] = Head(lines).quantity /\ (1 \in S <=> KeyOf[Head(lines).slot] = k)
       /\ f[1] \in Int
  BY <1>1, <1>2
<1> DEFINE R == S \ {1}
<1> HIDE DEF f, g, b, S, T
<1>11. R = {b[i] : i \in T}
  BY <1>5, Zenon
<1> HIDE DEF R
<1>12. SumFunctionOnSet(g, T) = SumFunctionOnSet(f, R)
  BY <1>6, <1>7, <1>8, <1>11, SumReindexed
<1>13. SumFunctionOnSet(f, R) \in Int
  <2>1. IsFiniteSet(R) /\ \A i \in R : f[i] \in Int
    BY <1>8, <1>9, FS_Subset, Zenon DEF R
  <2> QED BY <2>1, SumIsInteger, Zenon
<1>14. CASE 1 \in S
  <2>1. SumFunctionOnSet(f, S) = f[1] + SumFunctionOnSet(f, S \ {1})
    BY <1>8, <1>9, <1>14, SumWithout
  <2> QED BY <1>3, <1>10, <1>12, <1>13, <1>14, <2>1 DEF R, rest
<1>15. CASE 1 \notin S
  <2>1. R = S
    BY <1>15, Zenon DEF R
  <2> QED BY <1>3, <1>10, <1>12, <1>13, <1>15, <2>1 DEF rest
<1> QED BY <1>14, <1>15, Zenon

(* What a database has issued is a natural number.                         *)
LEMMA PostedType ==
    ASSUME NEW d \in [Shipments -> Shipment], NEW k
    PROVE  /\ \A h \in Shipments : ShippedQuantity(d[h].lines, k) \in Nat
           /\ PostedQuantity(d, k) \in Nat
<1> DEFINE f == [h \in Shipments |-> ShippedQuantity(d[h].lines, k)]
           P == {h \in Shipments : d[h].status = "posted"}
<1>1. \A h \in Shipments : d[h].lines \in Seq(ShipmentLine)
  BY Zenon DEF Shipment
<1>2. \A h \in Shipments : ShippedQuantity(d[h].lines, k) \in Nat
  BY <1>1, ShippedType, Zenon
<1>3. IsFiniteSet(P) /\ \A h \in P : f[h] \in Nat
  BY <1>2, ConstantsAssumption, FS_Subset
<1>4. PostedQuantity(d, k) = SumFunctionOnSet(f, P)
  BY Zenon DEF PostedQuantity
<1> HIDE DEF f, P
<1> QED BY <1>2, <1>3, <1>4, SumIsNatural

(* Drafting a document posts nothing.                                      *)
LEMMA DraftPostsNothing ==
    ASSUME NEW d \in [Shipments -> Shipment], NEW h \in Shipments, NEW form \in ShipmentForms,
           d[h].status = "none", NEW k
    PROVE  PostedQuantity([d EXCEPT ![h] = Draft(form)], k) = PostedQuantity(d, k)
<1> DEFINE e == [d EXCEPT ![h] = Draft(form)]
           f == [x \in Shipments |-> ShippedQuantity(d[x].lines, k)]
           g == [x \in Shipments |-> ShippedQuantity(e[x].lines, k)]
           P == {x \in Shipments : d[x].status = "posted"}
           Q == {x \in Shipments : e[x].status = "posted"}
<1>1. e[h].status = "draft" /\ \A x \in Shipments : x # h => e[x] = d[x]
  BY Zenon DEF Draft
<1>2. PostedQuantity(d, k) = SumFunctionOnSet(f, P) /\ PostedQuantity(e, k) = SumFunctionOnSet(g, Q)
  BY Zenon DEF PostedQuantity
<1> HIDE DEF e
<1>3. Q = P /\ h \notin P
  BY <1>1, Zenon
<1>4. \A x \in P : g[x] = f[x]
  BY <1>1, <1>3
<1>5. IsFiniteSet(P)
  BY ConstantsAssumption, FS_Subset, Zenon
<1> HIDE DEF f, g, P, Q
<1>6. SumFunctionOnSet(g, P) = SumFunctionOnSet(f, P)
  BY <1>4, <1>5, SumAgrees, Zenon
<1> QED BY <1>2, <1>3, <1>6, Zenon DEF e

(* Marking a draft posted adds what its lines ship.                        *)
LEMMA PostingAdds ==
    ASSUME NEW d \in [Shipments -> Shipment], NEW h \in Shipments, d[h].status = "draft", NEW k
    PROVE  PostedQuantity([d EXCEPT ![h].status = "posted"], k)
               = PostedQuantity(d, k) + ShippedQuantity(d[h].lines, k)
<1> DEFINE e == [d EXCEPT ![h].status = "posted"]
           f == [x \in Shipments |-> ShippedQuantity(d[x].lines, k)]
           g == [x \in Shipments |-> ShippedQuantity(e[x].lines, k)]
           P == {x \in Shipments : d[x].status = "posted"}
           Q == {x \in Shipments : e[x].status = "posted"}
<1>1. /\ e[h].status = "posted" /\ e[h].lines = d[h].lines
      /\ \A x \in Shipments : x # h => e[x] = d[x]
  BY Zenon DEF Shipment
<1>2. PostedQuantity(d, k) = SumFunctionOnSet(f, P) /\ PostedQuantity(e, k) = SumFunctionOnSet(g, Q)
  BY Zenon DEF PostedQuantity
<1> HIDE DEF e
<1>3. Q = P \cup {h} /\ h \notin P
  BY <1>1, Zenon
<1>4. f = g
  <2>1. \A x \in Shipments : ShippedQuantity(e[x].lines, k) = ShippedQuantity(d[x].lines, k)
    BY <1>1, Zenon
  <2> QED BY <2>1, Zenon
<1>5. IsFiniteSet(P)
  BY ConstantsAssumption, FS_Subset, Zenon
<1>6. \A x \in P \cup {h} : f[x] \in Int
  <2>1. \A x \in Shipments : ShippedQuantity(d[x].lines, k) \in Nat
    BY PostedType, Zenon
  <2> QED BY <2>1
<1>7. f[h] = ShippedQuantity(d[h].lines, k)
  BY Zenon
<1> HIDE DEF f, g, P, Q
<1>8. SumFunctionOnSet(f, P \cup {h}) = SumFunctionOnSet(f, P) + f[h]
  BY <1>3, <1>5, <1>6, SumInserted, Zenon
<1> QED BY <1>2, <1>3, <1>4, <1>7, <1>8 DEF e

(* Issued reads the documents and the issue column only.                   *)
LEMMA IssuedFrame ==
    ASSUME NEW d, NEW e, Issued(d), e.shipment = d.shipment,
           \A k \in Keys : e.ledger[k].issue = d.ledger[k].issue
    PROVE  Issued(e)
BY Zenon DEF Issued

(* A new draft leaves Issued true.                                         *)
LEMMA IssuedDraft ==
    ASSUME NEW d \in Database, NEW h \in Shipments, NEW form \in ShipmentForms,
           d.shipment[h].status = "none", Issued(d)
    PROVE  Issued([d EXCEPT !.shipment[h] = Draft(form)])
<1> DEFINE e == [d EXCEPT !.shipment[h] = Draft(form)]
<1>1. e.shipment = [d.shipment EXCEPT ![h] = Draft(form)] /\ e.ledger = d.ledger
      /\ d.shipment \in [Shipments -> Shipment]
  BY Zenon DEF Database
<1> HIDE DEF e
<1>2. \A k \in Keys : PostedQuantity(e.shipment, k) = PostedQuantity(d.shipment, k)
  BY <1>1, DraftPostsNothing
<1>3. Issued(e)
  BY <1>1, <1>2, Zenon DEF Issued
<1> QED BY <1>3, Zenon DEF e

(* The update of a reservation and its balance row changes no document and *)
(* no ledger.                                                              *)
LEMMA DocumentsKept ==
    ASSUME NEW d \in Database, NEW s \in Slots, NEW r \in Reservation, NEW b \in Balance
    PROVE  /\ Change(d, s, r, b) \in Database
           /\ Change(d, s, r, b).ledger = d.ledger
           /\ Change(d, s, r, b).shipment = d.shipment
BY ChangeRows

(* Every step keeps the ledger's issues those of the posted documents.     *)
LEMMA IssueStep == IssueInv /\ [Next]_vars => IssueInv'
<1> DEFINE Half == HalfIssued
           Goal == Issued(db)' /\ IF tx'.op = "postShipment" THEN Half' ELSE Issued(view)'
<1> SUFFICES ASSUME IssueInv, [Next]_vars PROVE Goal
  BY TypeStep, Zenon DEF IssueInv
<1>u. db \in Database /\ view \in Database /\ KeyOf \in [Slots -> Keys]
  BY ConstantsAssumption, Zenon DEF IssueInv, TypeOK
<1>0. /\ TypeOK /\ Issued(db)
      /\ db \in Database /\ view \in Database /\ tx \in Transaction
      /\ db.shipment \in [Shipments -> Shipment] /\ view.shipment \in [Shipments -> Shipment]
      /\ db.ledger \in [Keys -> Movements] /\ view.ledger \in [Keys -> Movements]
  BY Zenon DEF IssueInv, TypeOK, Database
<1>v. tx.op # "postShipment" => Issued(view)
  BY DEF IssueInv
<1>i. tx = Idle => tx.op = "idle" /\ view = db
  <2>1. tx = Idle => tx.op = "idle"
    BY DEF Idle
  <2>2. tx.op = "idle" => view = db
    BY DEF IssueInv, TypeOK
  <2> QED BY <2>1, <2>2, Zenon
(* Steps of other handlers that leave documents and issues alone.          *)
<1>a. ASSUME tx.op # "postShipment", tx'.op # "postShipment", UNCHANGED db,
             view'.shipment = view.shipment,
             \A k \in Keys : view'.ledger[k].issue = view.ledger[k].issue
      PROVE  Goal
  <2>1. Issued(view)'
    BY <1>v, <1>a DEF Issued
  <2> QED BY <1>0, <1>a, <2>1, Zenon DEF Issued
(* A handler of one step.                                                  *)
<1>b. ASSUME tx = Idle, NEW d, Install(d), Issued(d) PROVE Goal
  <2>1. db' = d /\ view' = d /\ tx'.op # "postShipment"
    BY <1>b, <1>i, Zenon DEF Install
  <2> QED BY <1>b, <2>1, Zenon DEF Issued
<1>d. ASSUME NEW s \in Slots, NEW r \in Reservation, NEW x \in Int, NEW y \in Int,
             Transition(s, r, x, y)
      PROVE  Goal
  <2> DEFINE c == ApplyDelta(db.balance[KeyOf[s]], 0, x, y)
             d == Change(db, s, r, c)
  <2>1. c \in Balance
    BY <1>0, CommitmentType, Zenon
  <2>2. tx = Idle /\ Install(d)
    BY <1>d, Zenon DEF Transition
  <2> HIDE DEF c
  <2>3. d.shipment = db.shipment /\ d.ledger = db.ledger
    BY <1>u, <2>1, DocumentsKept
  <2> HIDE DEF d
  <2>4. Issued(d)
    BY <1>0, <2>3, IssuedFrame, Zenon
  <2> QED BY <1>b, <2>2, <2>4
<1>n. ASSUME NextLine PROVE tx'.op = tx.op /\ tx'.todo = Tail(tx.todo) /\ tx'.doc = tx.doc
  BY <1>0, <1>n, Zenon DEF NextLine, Transaction
<1>e. \A s \in Slots : /\ db.row[s] \in Reservation /\ Open(db.row[s]) \in Nat
                       /\ view.row[s] \in Reservation /\ Open(view.row[s]) \in Nat
  BY <1>0, OpenIsNat DEF Database
<1>g. ASSUME NEW op, NEW todo, NEW due, NEW doc, Begin(op, todo, due, doc), op # "postShipment",
             UNCHANGED <<db, view>>
      PROVE  Goal
  <2>1. tx = Idle /\ tx'.op = op
    BY <1>g DEF Begin
  <2> QED BY <1>a, <1>g, <1>i, <2>1, Zenon
<1>1. ASSUME NEW request \in ReservationRequests, BeginCreateReservations(request) PROVE Goal
  BY <1>1, <1>g DEF BeginCreateReservations
<1>2. CASE ReserveLineReplayed
  BY <1>2, <1>a, <1>n, Zenon DEF ReserveLineReplayed, Running
<1>3. CASE ReserveLineWithoutInsert
  <2>1. view'.shipment = view.shipment /\ view'.ledger = view.ledger
    BY <1>0, <1>3, Zenon DEF ReserveLineWithoutInsert, Database
  <2> QED BY <1>3, <1>a, <1>n, <2>1 DEF ReserveLineWithoutInsert, Running
<1>4. CASE ReserveLine
  <2> DEFINE s == Line.slot
             q == ReserveQty(Line, Available(view, KeyOf[s]))
             r == NewReservation(Line, q)
             c == ApplyDelta(view.balance[KeyOf[s]], 0, q, 0)
             d == Change(view, s, r, c)
  <2>1. Line \in ReservationLine /\ s \in Slots
    BY <1>0, <1>4, LineTypes, Zenon DEF ReserveLine, Running, ReservationLine
  <2>2. q \in Nat
    BY <1>u, <2>1, AvailableIsInt, TakenIsNat
  <2>3. view' = [d EXCEPT !.backorder = BackorderAfter(view, Line, q)]
    BY <1>4, Zenon DEF ReserveLine
  <2> HIDE DEF q
  <2>4. r \in Reservation
    BY <2>1, <2>2, ColumnTypes
  <2>5. c \in Balance
    <3>1. q \in Int /\ 0 \in Int
      BY <2>2
    <3> QED BY <1>0, <2>1, <3>1, CommitmentType, Zenon
  <2> HIDE DEF r, c
  <2>6. d \in Database /\ d.shipment = view.shipment /\ d.ledger = view.ledger
    BY <1>u, <2>1, <2>4, <2>5, DocumentsKept
  <2> HIDE DEF d
  <2>7. view'.shipment = view.shipment /\ view'.ledger = view.ledger
    BY <2>3, <2>6, Zenon DEF Database
  <2> QED BY <1>4, <1>a, <1>n, <2>7, Zenon DEF ReserveLine, Running
<1>5. ASSUME NEW s \in Slots, AllocateReservation(s) PROVE Goal
  <2>1. [db.row[s] EXCEPT !.status = "ALLOCATED"] \in Reservation
    BY <1>e, ColumnTypes, Zenon DEF Statuses, ActiveStatuses
  <2>2. -Open(db.row[s]) \in Int /\ Open(db.row[s]) \in Int
    BY <1>e
  <2> QED BY <1>5, <1>d, <2>1, <2>2 DEF AllocateReservation
<1>6. ASSUME NEW s \in Slots, CancelReservation(s) PROVE Goal
  <2>1. [db.row[s] EXCEPT !.status = "CANCELLED"] \in Reservation
    BY <1>e, ColumnTypes, Zenon DEF Statuses, ActiveStatuses
  <2>2. (IF db.row[s].status = "RESERVED" THEN -Open(db.row[s]) ELSE 0) \in Int
        /\ (IF db.row[s].status = "ALLOCATED" THEN -Open(db.row[s]) ELSE 0) \in Int
    BY <1>e
  <2> QED BY <1>6, <1>d, <2>1, <2>2 DEF CancelReservation
<1>7. ASSUME NEW s \in Slots, NEW q \in FulfillQuantities, FulfillReservation(s, q) PROVE Goal
  <2> DEFINE n == Least(q, Open(db.row[s]))
  <2>1. n \in Nat /\ -n \in Int /\ 0 \in Int
    BY <1>e, ConstantsAssumption DEF Least
  <2>2. Transition(s, Fulfilled(db.row[s], n), 0, -n)
    BY <1>7, Zenon DEF FulfillReservation
  <2> HIDE DEF n
  <2>3. Fulfilled(db.row[s], n) \in Reservation
    BY <1>e, <2>1, ColumnTypes, Zenon
  <2> QED BY <1>d, <2>1, <2>2, <2>3
<1>8. ASSUME NEW s \in Slots, TimePasses(s) PROVE Goal
  <2> DEFINE d == [db EXCEPT !.row[s] = [@ EXCEPT !.expiry = "due"]]
  <2>1. tx = Idle /\ Install(d) /\ d.shipment = db.shipment /\ d.ledger = db.ledger
    BY <1>0, <1>8, Zenon DEF TimePasses, Database
  <2> HIDE DEF d
  <2>2. Issued(d)
    BY <1>0, <2>1, IssuedFrame
  <2> QED BY <1>b, <2>1, <2>2
<1>9. ASSUME NEW due \in SUBSET Slots, BeginExpire(due) PROVE Goal
  BY <1>9, <1>g, Zenon DEF BeginExpire
<1>10. ASSUME NEW s \in Slots, ExpireRow(s) PROVE Goal
  <2> DEFINE r == [view.row[s] EXCEPT !.status = "EXPIRED"]
             c == ApplyDelta(view.balance[KeyOf[s]], 0, -Open(view.row[s]), 0)
  <2>1. /\ tx.op = "expire" /\ UNCHANGED db /\ view' = Change(view, s, r, c)
        /\ tx' = [tx EXCEPT !.due = @ \ {s}]
    BY <1>10 DEF ExpireRow
  <2>2. r \in Reservation
    BY <1>e, ColumnTypes, Zenon DEF Statuses, ActiveStatuses
  <2>3. c \in Balance
    <3>1. -Open(view.row[s]) \in Int /\ 0 \in Int
      BY <1>e
    <3> QED BY <1>0, <3>1, CommitmentType, Zenon
  <2> HIDE DEF r, c
  <2>4. view'.shipment = view.shipment /\ view'.ledger = view.ledger
    BY <1>u, <2>1, <2>2, <2>3, DocumentsKept
  <2>5. tx'.op = "expire"
    BY <1>0, <2>1 DEF Transaction
  <2> QED BY <1>a, <2>1, <2>4, <2>5, Zenon
<1>11. ASSUME NEW h \in Shipments, NEW form \in ShipmentForms, CreateShipment(h, form) PROVE Goal
  <2>1. Issued([db EXCEPT !.shipment[h] = Draft(form)])
    BY <1>0, <1>11, IssuedDraft, Zenon DEF CreateShipment
  <2> QED BY <1>11, <1>b, <2>1 DEF CreateShipment
<1>12. ASSUME NEW h \in Shipments, NEW form \in ShipmentForms, BeginCreateShipment(h, form) PROVE Goal
  <2>1. tx = Idle /\ tx'.op = "createShipment" /\ db.shipment[h].status = "none"
        /\ view' = [view EXCEPT !.shipment[h] = Draft(form)] /\ UNCHANGED db
    BY <1>12, Zenon DEF BeginCreateShipment, Begin
  <2>2. Issued([view EXCEPT !.shipment[h] = Draft(form)])
    BY <1>0, <1>i, <2>1, IssuedDraft, Zenon
  <2> QED BY <1>0, <2>1, <2>2 DEF Issued
<1>13. CASE AutoAllocateLineSkipped
  BY <1>13, <1>a, <1>n DEF AutoAllocateLineSkipped, Running
<1>14. CASE AutoAllocateLine
  <2> DEFINE s == Line.slot
             n == Open(db.row[s])
             r == [view.row[s] EXCEPT !.status = "ALLOCATED"]
             c == ApplyDelta(view.balance[KeyOf[s]], 0, -n, n)
  <2>1. s \in Slots
    BY <1>0, <1>14, LineTypes DEF AutoAllocateLine, Running, ShipmentLine
  <2>2. r \in Reservation
    BY <1>e, <2>1, ColumnTypes, Zenon DEF Statuses, ActiveStatuses
  <2>3. c \in Balance
    <3>1. n \in Int /\ -n \in Int
      BY <1>e, <2>1
    <3> QED BY <1>0, <2>1, <3>1, CommitmentType, Zenon
  <2>4. view' = Change(view, s, r, c)
    BY <1>14, Zenon DEF AutoAllocateLine
  <2> HIDE DEF r, c
  <2>5. view'.shipment = view.shipment /\ view'.ledger = view.ledger
    BY <1>u, <2>1, <2>2, <2>3, <2>4, DocumentsKept, Zenon
  <2> QED BY <1>14, <1>a, <1>n, <2>5, Zenon DEF AutoAllocateLine, Running
<1>15. ASSUME NEW h \in Shipments, BeginPostShipment(h) PROVE Goal
  <2>1. /\ tx = Idle /\ db.shipment[h].status = "draft" /\ UNCHANGED <<db, view>>
        /\ tx'.op = "postShipment" /\ tx'.todo = db.shipment[h].lines /\ tx'.doc = h
    BY <1>15, Zenon DEF BeginPostShipment, Begin
  <2>2. Half'
    BY <1>i, <2>1, Zenon DEF HalfIssued
  <2> QED BY <1>0, <2>1, <2>2 DEF Issued
<1>18. ASSUME NEW form \in AdjustmentForms, BeginPostAdjustment(form) PROVE Goal
  BY <1>18, <1>g DEF BeginPostAdjustment
<1>20. CASE Commit
  <2>1. Issued(view) /\ db' = view /\ view' = view /\ tx'.op = "idle"
    BY <1>20, <1>v, Zenon DEF Commit, Idle
  <2> QED BY <2>1 DEF Issued
<1>21. CASE Abort
  <2>1. db' = db /\ view' = db /\ tx'.op = "idle"
    BY <1>21, Zenon DEF Abort, Idle
  <2> QED BY <1>0, <2>1 DEF Issued
<1>22. CASE UNCHANGED vars
  <2>1. db' = db /\ view' = view /\ tx' = tx
    BY <1>22 DEF vars
  <2> QED BY <2>1, Zenon DEF IssueInv, HalfIssued, Issued
<1>19. CASE AdjustLine
  <2> DEFINE k == Line.key
             n == Line.delta
             c == ApplyDelta(view.balance[k], n, 0, 0)
  <2>1. k \in Keys /\ n \in Int
    BY <1>0, <1>19, LineTypes DEF AdjustLine, Running, AdjustmentLine
  <2>2. view' = [view EXCEPT !.ledger[k].adjustment = @ + n, !.balance[k] = c]
    BY <1>19, Zenon DEF AdjustLine
  <2> HIDE DEF k, n, c
  <2>3. /\ view'.shipment = view.shipment
        /\ view'.ledger = [view.ledger EXCEPT ![k].adjustment = @ + n]
    BY <1>0, <2>2, Zenon DEF Database
  <2>4. ASSUME NEW x \in Keys PROVE view'.ledger[x].issue = view.ledger[x].issue
    BY <1>0, <2>1, <2>3 DEF Movements
  <2> QED BY <1>19, <1>a, <1>n, <2>3, <2>4, Zenon DEF AdjustLine, Running
<1>h. ASSUME tx.op = "postShipment"
      PROVE  /\ HalfIssued /\ tx.doc \in Shipments /\ tx.todo \in Seq(ShipmentLine)
             /\ db.shipment[tx.doc].lines \in Seq(ShipmentLine)
  BY <1>0, <1>h, Zenon DEF IssueInv, TypeOK, Shipment
<1>16. CASE ShipLine
  <2> DEFINE s == Line.slot
             k == KeyOf[s]
             qty == Line.quantity
             n == ReserveConsume(Line)
             row == view.row[s]
             b == view.balance[k]
             mid == IF n > 0 THEN AllocatedForShipment(b, row, n) ELSE b
             c == ApplyDelta(mid, -qty, 0, -n)
             r == IF n > 0 THEN Fulfilled(row, n) ELSE row
             d == Change(view, s, r, c)
  <2>0. tx.op = "postShipment" /\ tx.todo # << >> /\ NextLine /\ UNCHANGED db
    BY <1>16, Zenon DEF ShipLine, Running
  <2>1. Line \in ShipmentLine /\ s \in Slots /\ k \in Keys
    BY <1>u, <1>0, <2>0, LineTypes, SMTT(20) DEF ShipmentLine
  <2>2. n \in Nat /\ n \in Int /\ qty \in Nat /\ qty \in Int
    BY <1>0, <2>1, TakenIsNat DEF ShipmentLine
  <2>3. view' = [d EXCEPT !.ledger[k].issue = @ + qty]
    BY <1>16, Zenon DEF ShipLine
  <2> HIDE DEF n
  <2>4. b \in Balance
    BY <1>0, <2>1, Zenon DEF Database
  <2>5. mid \in Balance
    BY <2>2, <2>4, ShipmentAllocationType
  <2> HIDE DEF mid
  <2>6. c \in Balance
    BY <2>2, <2>5, IssueDeltaType, Zenon
  <2>7. r \in Reservation
    BY <1>e, <2>1, <2>2, ColumnTypes, Zenon
  <2> HIDE DEF c, r
  <2>8. d \in Database /\ d.ledger = view.ledger /\ d.shipment = view.shipment
    BY <1>u, <2>1, <2>6, <2>7, DocumentsKept, SMTT(20)
  <2> HIDE DEF d
  <2>9. /\ view'.shipment = view.shipment
        /\ view'.ledger = [view.ledger EXCEPT ![k].issue = @ + qty]
    BY <2>3, <2>8, Zenon DEF Database
  <2> HIDE DEF k, qty
  <2>10. ASSUME NEW x \in Keys
         PROVE  view'.ledger[x].issue + ShippedQuantity(tx'.todo, x)
                    = db'.ledger[x].issue + ShippedQuantity(db'.shipment[tx'.doc].lines, x)
    <3>1. view'.ledger[x].issue = view.ledger[x].issue + (IF k = x THEN qty ELSE 0)
          /\ view.ledger[x].issue \in Nat
      BY <1>0, <2>1, <2>2, <2>9 DEF Movements
    <3>2. ShippedQuantity(tx.todo, x)
              = ShippedQuantity(Tail(tx.todo), x) + (IF k = x THEN qty ELSE 0)
      BY <1>h, <2>0, ShippedTail, Zenon DEF k, qty, Line
    <3>3. ShippedQuantity(Tail(tx.todo), x) \in Nat
      BY <1>0, <2>0, LineTypes, ShippedType, Zenon
    <3>4. tx'.todo = Tail(tx.todo) /\ tx'.doc = tx.doc /\ db' = db
      BY <1>n, <2>0
    <3>5. view.ledger[x].issue + ShippedQuantity(tx.todo, x)
              = db.ledger[x].issue + ShippedQuantity(db.shipment[tx.doc].lines, x)
      BY <1>h, <2>0, Zenon DEF HalfIssued
    <3>6. (IF k = x THEN qty ELSE 0) \in Nat
      BY <2>2, Zenon
    <3>7. view'.ledger[x].issue + ShippedQuantity(Tail(tx.todo), x)
              = view.ledger[x].issue + ShippedQuantity(tx.todo, x)
      BY <3>1, <3>2, <3>3, <3>6
    <3> QED BY <3>4, <3>5, <3>7
  <2>11. Half'
    BY <1>h, <1>n, <2>0, <2>9, <2>10, Zenon DEF HalfIssued
  <2> QED BY <1>0, <1>n, <2>0, <2>11, Zenon DEF Issued
<1>17. CASE CommitPostShipment
  <2>1. /\ tx.op = "postShipment" /\ tx.todo = << >> /\ tx'.op = "idle"
        /\ db' = [view EXCEPT !.shipment[tx.doc].status = "posted"] /\ view' = db'
    BY <1>17 DEF CommitPostShipment, Idle
  <2>2. /\ db'.ledger = view.ledger
        /\ db'.shipment = [db.shipment EXCEPT ![tx.doc].status = "posted"]
    BY <1>0, <1>h, <2>1, Zenon DEF Database, HalfIssued
  <2>3. ASSUME NEW k \in Keys PROVE db'.ledger[k].issue = PostedQuantity(db'.shipment, k)
    <3>1. PostedQuantity(db'.shipment, k)
              = PostedQuantity(db.shipment, k) + ShippedQuantity(db.shipment[tx.doc].lines, k)
      <4>1. db.shipment \in [Shipments -> Shipment] /\ tx.doc \in Shipments
            /\ db.shipment[tx.doc].status = "draft"
        BY <1>0, <1>h, <2>1, Zenon DEF HalfIssued
      <4> QED BY <2>2, <4>1, PostingAdds
    <3>2. view.ledger[k].issue + ShippedQuantity(tx.todo, k)
              = db.ledger[k].issue + ShippedQuantity(db.shipment[tx.doc].lines, k)
      BY <1>h, <2>1, Zenon DEF HalfIssued
    <3>3. ShippedQuantity(tx.todo, k) = 0 /\ view.ledger[k].issue \in Nat
      BY <1>0, <1>h, <2>1, ShippedType, Zenon DEF Movements
    <3>4. db.ledger[k].issue = PostedQuantity(db.shipment, k)
      BY <1>0, Zenon DEF Issued
    <3> QED BY <2>2, <3>1, <3>2, <3>3, <3>4, SMTT(20)
  <2> QED BY <2>1, <2>3 DEF Issued
<1> QED
  BY Zenon, <1>1, <1>2, <1>3, <1>4, <1>5, <1>6, <1>7, <1>8, <1>9, <1>10, <1>11, <1>12, <1>13, <1>14,
     <1>15, <1>16, <1>17, <1>18, <1>19, <1>20, <1>21, <1>22 DEF Next

(* Whatever is shipped, and wherever a posting fails, stock has been       *)
(* issued exactly once for each line of each posted shipment and for none  *)
(* of a draft.                                                             *)
THEOREM ShipmentsAreIssuedOnce == Spec => []ShipmentsIssuedOnce
<1>1. Init => IssueInv
  <2> SUFFICES ASSUME Init PROVE IssueInv
    BY Zenon
  <2>1. TypeOK /\ db = EmptyDatabase /\ view = db /\ tx.op = "idle"
    BY InitTypeOK, Zenon DEF Init, Idle
  <2>2. ASSUME NEW k \in Keys PROVE db.ledger[k].issue = PostedQuantity(db.shipment, k)
    <3>1. db.ledger[k].issue = 0 /\ {h \in Shipments : db.shipment[h].status = "posted"} = {}
      BY <2>1, Zenon DEF EmptyDatabase
    <3>2. PostedQuantity(db.shipment, k) = 0
      BY <3>1, SumEmpty, Zenon DEF PostedQuantity
    <3> QED BY <3>1, <3>2
  <2> QED BY <2>1, <2>2 DEF IssueInv, Issued
<1>2. IssueInv => ShipmentsIssuedOnce
  BY Zenon DEF IssueInv, Issued, ShipmentsIssuedOnce
<1> QED BY <1>1, <1>2, IssueStep, PTL DEF Spec
=============================================================================
