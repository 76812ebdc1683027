------------------------- MODULE ReservationsSafety -------------------------
(***************************************************************************)
(* What Reservations guarantees for every set of slots, keys and shipments *)
(* and every request whatsoever: the tables keep their types, the balance  *)
(* projection follows the ledger and never promises more than is on hand,  *)
(* and reservations only move forward through their lifecycle.             *)
(***************************************************************************)
EXTENDS Reservations, FiniteSetTheorems, TLAPS

(* What a row counts for in CommittedUnits.                                *)
Count(r, statuses) == IF r.status \in statuses THEN Open(r) ELSE 0

(* The open quantity of a row is a natural number, and so is its count.    *)
LEMMA OpenIsNat ==
    ASSUME NEW r \in Reservation, NEW statuses
    PROVE  Open(r) \in Nat /\ Count(r, statuses) \in Nat
BY DEF Reservation, Open, AtLeastZero, Count

(* The units committed from a Key form a finite set: the sum that          *)
(* inventory_commitments_location_v computes is a number.                  *)
LEMMA CommittedUnitsFinite ==
    ASSUME NEW row \in [Slots -> Reservation], NEW k, NEW statuses
    PROVE  /\ IsFiniteSet(CommittedUnits(row, k, statuses))
           /\ Cardinality(CommittedUnits(row, k, statuses)) \in Nat
<1> DEFINE T == {s \in Slots : KeyOf[s] = k /\ row[s].status \in statuses}
           Own(s) == {s} \X (1..Open(row[s]))
           F == [s \in T |-> Own(s)]
           R == {Own(s) : s \in T}
<1>1. IsFiniteSet(T)
  BY FS_Subset, ConstantsAssumption, Zenon
<1>2. F \in Surjection(T, R)
  BY Zenon DEF Surjection
<1>3. IsFiniteSet(R)
  BY <1>1, <1>2, FS_Surjection, Zenon
<1>4. \A X \in R : IsFiniteSet(X)
  <2> SUFFICES ASSUME NEW s \in T PROVE IsFiniteSet(Own(s))
    BY Zenon
  <2>1. IsFiniteSet({s})
    BY FS_Singleton, Zenon
  <2>2. 0 \in Int /\ 1 \in Int /\ Open(row[s]) \in Int
    BY OpenIsNat
  <2>3. IsFiniteSet(1..Open(row[s]))
    BY <2>2, FS_Interval, Zenon
  <2> QED BY <2>1, <2>3, FS_Product, Zenon
<1>5. IsFiniteSet(UNION R)
  BY <1>3, <1>4, FS_UNION, Zenon
<1>6. CommittedUnits(row, k, statuses) = UNION R
  BY Zenon DEF CommittedUnits
<1> QED BY <1>5, <1>6, FS_CardinalityType, Zenon

(* Changing one row changes the committed quantity of its Key by the       *)
(* difference of what the row counts for.                                  *)
LEMMA CommittedUnitsChange ==
    ASSUME NEW row \in [Slots -> Reservation], NEW row2 \in [Slots -> Reservation],
           NEW s \in Slots, \A x \in Slots : x # s => row2[x] = row[x], NEW statuses
    PROVE  Cardinality(CommittedUnits(row2, KeyOf[s], statuses))
             = Cardinality(CommittedUnits(row, KeyOf[s], statuses))
                 - Count(row[s], statuses) + Count(row2[s], statuses)
<1> DEFINE k == KeyOf[s]
           Rest == UNION {{x} \X (1..Open(row[x])) :
                            x \in {x \in Slots : x # s /\ KeyOf[x] = k /\ row[x].status \in statuses}}
           Own(q) == {s} \X (1..Count(q, statuses))
<1>a. 1..0 = {}
  OBVIOUS
<1>1. ASSUME NEW w \in [Slots -> Reservation], \A x \in Slots : x # s => w[x] = row[x]
      PROVE  Cardinality(CommittedUnits(w, k, statuses))
               = Cardinality(Rest) + Count(w[s], statuses)
             /\ Cardinality(Rest) \in Nat
  <2>1. CommittedUnits(w, k, statuses) = Rest \cup Own(w[s])
    <3>1. ASSUME NEW u PROVE u \in CommittedUnits(w, k, statuses) <=> u \in Rest \cup Own(w[s])
      <4>1. u \in CommittedUnits(w, k, statuses)
              <=> \E x \in Slots : /\ KeyOf[x] = k /\ w[x].status \in statuses
                                   /\ u \in {x} \X (1..Open(w[x]))
        BY Zenon DEF CommittedUnits
      <4>2. u \in Rest
              <=> \E x \in Slots : /\ x # s /\ KeyOf[x] = k /\ row[x].status \in statuses
                                   /\ u \in {x} \X (1..Open(row[x]))
        BY Zenon
      <4>3. u \in Own(w[s]) <=> w[s].status \in statuses /\ u \in {s} \X (1..Open(w[s]))
        BY <1>a, Zenon DEF Count
      <4> QED BY <4>1, <4>2, <4>3, <1>1, Zenon
    <3> HIDE DEF Rest, Own
    <3> QED BY <3>1, Zenon
  <2>2. Rest \cap Own(w[s]) = {}
    OBVIOUS
  <2>3. IsFiniteSet(CommittedUnits(w, k, statuses))
    BY CommittedUnitsFinite, Zenon
  <2>4. IsFiniteSet(Rest) /\ IsFiniteSet(Own(w[s])) 
    <3> HIDE DEF Rest, Own
    <3> QED BY <2>1, <2>3, FS_Subset, Zenon
  <2>5. Cardinality(Own(w[s])) = Count(w[s], statuses)
    <3>1. IsFiniteSet({s}) /\ Cardinality({s}) = 1
      BY FS_Singleton, Zenon
    <3>2. Count(w[s], statuses) \in Nat
      BY OpenIsNat, Zenon
    <3>3. IsFiniteSet(1..Count(w[s], statuses))
          /\ Cardinality(1..Count(w[s], statuses)) = Count(w[s], statuses)
      BY <3>2, FS_Interval
    <3> QED BY <3>1, <3>2, <3>3, FS_Product
  <2> HIDE DEF Rest, Own
  <2>6. Cardinality(Rest \cup Own(w[s])) = Cardinality(Rest) + Cardinality(Own(w[s])) - Cardinality({})
    BY <2>2, <2>4, FS_Union, Zenon
  <2>7. Cardinality({}) = 0
    BY FS_EmptySet, Zenon
  <2>8. Cardinality(Rest) \in Nat /\ Count(w[s], statuses) \in Nat
    BY <2>4, FS_CardinalityType, OpenIsNat, Zenon
  <2> QED BY <2>1, <2>5, <2>6, <2>7, <2>8
<1> HIDE DEF Rest
<1>2. Cardinality(CommittedUnits(row, k, statuses)) = Cardinality(Rest) + Count(row[s], statuses)
      /\ Cardinality(Rest) \in Nat
  BY <1>1, Zenon
<1>3. Cardinality(CommittedUnits(row2, k, statuses)) = Cardinality(Rest) + Count(row2[s], statuses)
  BY <1>1, Zenon
<1>4. Count(row[s], statuses) \in Nat /\ Count(row2[s], statuses) \in Nat
  BY OpenIsNat, Zenon
<1> QED BY <1>2, <1>3, <1>4

(* ... and leaves every other Key as it was.                               *)
LEMMA CommittedUnitsOther ==
    ASSUME NEW row \in [Slots -> Reservation], NEW row2 \in [Slots -> Reservation],
           NEW s \in Slots, \A x \in Slots : x # s => row2[x] = row[x],
           NEW statuses, NEW k, k # KeyOf[s]
    PROVE  CommittedUnits(row2, k, statuses) = CommittedUnits(row, k, statuses)
BY Zenon DEF CommittedUnits

-----------------------------------------------------------------------------
(* Type correctness                                                        *)

(* The values the handlers write are of the types of their columns.        *)
LEMMA ColumnTypes ==
    /\ \A r \in Reservation : \A q \in Nat : Fulfilled(r, q) \in Reservation
    /\ \A r \in Reservation : \A st \in Statuses : [r EXCEPT !.status = st] \in Reservation
    /\ \A l \in ReservationLine : \A q \in Nat : NewReservation(l, q) \in Reservation
<1>2. ASSUME NEW r \in Reservation, NEW q \in Nat PROVE Fulfilled(r, q) \in Reservation
  <2> DEFINE total == Least(r.reserved, r.fulfilled + q)
             status == IF total = r.reserved THEN "FULFILLED" ELSE "ALLOCATED"
  <2>1. total \in Nat
    BY DEF Reservation, Least
  <2>2. status \in Statuses
    BY Zenon DEF Statuses, ActiveStatuses
  <2>3. Fulfilled(r, q) = [r EXCEPT !.fulfilled = total, !.status = status]
    BY Zenon DEF Fulfilled
  <2> HIDE DEF total, status
  <2> QED BY <2>1, <2>2, <2>3, Zenon DEF Reservation
<1>3. \A r \in Reservation : \A st \in Statuses : [r EXCEPT !.status = st] \in Reservation
  BY Zenon DEF Reservation
<1>4. \A l \in ReservationLine : \A q \in Nat : NewReservation(l, q) \in Reservation
  BY Zenon DEF Reservation, ReservationLine, NewReservation, Least, Statuses, ActiveStatuses
<1> QED BY <1>2, <1>3, <1>4, Zenon

(* A commitment operation writes a balance row.                            *)
LEMMA CommitmentType ==
    ASSUME NEW d \in Database, NEW s \in Slots, NEW x \in Int, NEW y \in Int
    PROVE  ApplyDelta(d.balance[KeyOf[s]], 0, x, y) \in Balance
<1>1. d.balance[KeyOf[s]] \in Balance
  BY ConstantsAssumption, Zenon DEF Database
<1> QED BY <1>1 DEF ApplyDelta, Balance

(* So does the allocation that precedes a shipment.                        *)
LEMMA ShipmentAllocationType ==
    ASSUME NEW b \in Balance, NEW r, NEW n \in Int
    PROVE  /\ AllocatedForShipment(b, r, n) \in Balance
           /\ r.status # "RESERVED" => AllocatedForShipment(b, r, n) = b
           /\ r.status = "RESERVED" =>
                /\ AllocatedForShipment(b, r, n).reserved = b.reserved + (-n)
                /\ AllocatedForShipment(b, r, n).allocated = b.allocated + n
<1>1. CASE r.status = "RESERVED"
  <2>1. AllocatedForShipment(b, r, n) = ApplyDelta(b, 0, -n, n)
    BY <1>1, Zenon DEF AllocatedForShipment
  <2>2. /\ ApplyDelta(b, 0, -n, n) \in Balance
        /\ ApplyDelta(b, 0, -n, n).reserved = b.reserved + (-n)
        /\ ApplyDelta(b, 0, -n, n).allocated = b.allocated + n
    BY DEF ApplyDelta, Balance
  <2> QED BY <1>1, <2>1, <2>2, Zenon
<1>2. CASE r.status # "RESERVED"
  BY <1>2, Zenon DEF AllocatedForShipment
<1> QED BY <1>1, <1>2, Zenon

(* And the issue that follows it.                                          *)
LEMMA IssueDeltaType ==
    ASSUME NEW b \in Balance, NEW q \in Int, NEW n \in Int
    PROVE  LET c == ApplyDelta(b, -q, 0, -n) IN
           /\ c \in Balance
           /\ c.onHand = b.onHand - q
           /\ c.reserved = b.reserved + 0
           /\ c.allocated = b.allocated + (-n)
BY DEF ApplyDelta, Balance

(* What Change writes, row by row.                                         *)
LEMMA ChangeRows ==
    ASSUME NEW d \in Database, NEW s \in Slots, NEW r \in Reservation, NEW b \in Balance
    PROVE  LET e == Change(d, s, r, b) IN
           /\ e \in Database
           /\ e.row[s] = r
           /\ \A x \in Slots : x # s => e.row[x] = d.row[x]
           /\ e.balance[KeyOf[s]] = b
           /\ \A k \in Keys : k # KeyOf[s] => e.balance[k] = d.balance[k]
           /\ e.ledger = d.ledger
           /\ e.backorder = d.backorder
           /\ e.shipment = d.shipment
BY ConstantsAssumption, Zenon DEF Change, Database

(* Availability is an integer.                                             *)
LEMMA AvailableIsInt ==
    ASSUME NEW d \in Database, NEW k \in Keys
    PROVE  Available(d, k) \in Int
<1>1. Cardinality(CommittedUnits(d.row, k, ActiveStatuses)) \in Nat
  BY CommittedUnitsFinite, Zenon DEF Database
<1> QED BY <1>1 DEF Available, Committed, OnHand, Database, Movements

(* What createReservations and postShipment take is a natural number.      *)
LEMMA TakenIsNat ==
    /\ \A l \in ReservationLine : \A a \in Int : ReserveQty(l, a) \in Nat
    /\ db \in Database => \A l \in ShipmentLine : ReserveConsume(l) \in Nat
<1>1. \A l \in ReservationLine : \A a \in Int : ReserveQty(l, a) \in Nat
  BY DEF ReserveQty, ReservationLine, AtLeastZero, Least
<1>2. ASSUME db \in Database, NEW l \in ShipmentLine PROVE ReserveConsume(l) \in Nat
  <2>1. db.row[l.slot] \in Reservation
    BY <1>2, Zenon DEF Database, ShipmentLine
  <2> QED BY <2>1, OpenIsNat, Zenon DEF ReserveConsume, ShipmentLine, Least
<1> QED BY <1>1, <1>2, Zenon

(* A transaction's first line is of its handler's type, and so are the     *)
(* lines after it.                                                         *)
LEMMA LineTypes ==
    ASSUME TypeOK, tx.todo # << >>
    PROVE  /\ tx.op = "createReservations" =>
                 Line \in ReservationLine /\ Tail(tx.todo) \in Seq(ReservationLine)
           /\ tx.op \in {"createShipment", "postShipment"} =>
                 Line \in ShipmentLine /\ Tail(tx.todo) \in Seq(ShipmentLine)
           /\ tx.op = "postAdjustment" =>
                 Line \in AdjustmentLine /\ Tail(tx.todo) \in Seq(AdjustmentLine)
BY DEF TypeOK, Line

(* Issuing stock and adjusting it keep a Key's movement totals typed.       *)
LEMMA IssueType ==
    ASSUME NEW m \in Movements, NEW q \in Nat
    PROVE  [m EXCEPT !.issue = @ + q] \in Movements
BY DEF Movements

(* So does adjusting it.                                                   *)
LEMMA AdjustmentType ==
    ASSUME NEW m \in Movements, NEW n \in Int
    PROVE  [m EXCEPT !.adjustment = @ + n] \in Movements
BY DEF Movements

(* Every value a handler computes and writes is of its type, and every     *)
(* transaction's remaining lines are its handler's.                        *)
LEMMA TypeStep == TypeOK /\ [Next]_vars => TypeOK'
<1> SUFFICES ASSUME TypeOK, [Next]_vars PROVE TypeOK'
  BY Zenon
<1> USE ConstantsAssumption
<1>0. /\ db \in Database /\ view \in Database /\ tx \in Transaction
      /\ tx.op = "idle" => tx = Idle /\ view = db
  BY Zenon DEF TypeOK
<1>a. ASSUME Install(db'), db' \in Database, tx = Idle PROVE TypeOK'
  BY <1>0, <1>a, Zenon DEF Install, TypeOK, Idle
<1>b. ASSUME NextLine, tx.op \in Operations, tx.todo # << >>, UNCHANGED db, view' \in Database
      PROVE  TypeOK'
  <2>1. tx'.op = tx.op /\ tx'.due = tx.due /\ tx'.doc = tx.doc /\ tx'.todo = Tail(tx.todo)
    BY <1>0, <1>b, Zenon DEF NextLine, Transaction
  <2>2. Tail(tx.todo) \in Seq(ReservationLine) \cup Seq(ShipmentLine) \cup Seq(AdjustmentLine)
    BY <1>0, <1>b DEF Transaction
  <2>3. tx' \in Transaction
    BY <1>0, <1>b, <2>2, Zenon DEF NextLine, Transaction
  <2> QED BY <1>0, <1>b, <2>1, <2>3, LineTypes, Zenon DEF TypeOK, Operations
<1>c. ASSUME NEW op \in Operations, NEW todo, NEW due \in SUBSET Slots,
             NEW doc \in Shipments \cup {NoShipment},
             Begin(op, todo, due, doc), UNCHANGED db, view' \in Database,
             \/ op = "createReservations" /\ todo \in Seq(ReservationLine)
             \/ op \in {"createShipment", "postShipment"} /\ todo \in Seq(ShipmentLine) /\ doc \in Shipments
             \/ op = "postAdjustment" /\ todo \in Seq(AdjustmentLine)
             \/ op = "expire" /\ todo = << >>
      PROVE  TypeOK'
  <2>1. tx' = [op |-> op, todo |-> todo, due |-> due, doc |-> doc]
    BY <1>c, Zenon DEF Begin
  <2>2. tx'.op = op /\ tx'.todo = todo /\ tx'.due = due /\ tx'.doc = doc
    BY <2>1, Zenon
  <2>a. op # "idle"
    BY Zenon DEF Operations
  <2>b. << >> \in Seq(ShipmentLine)
    OBVIOUS
  <2>3. todo \in Seq(ReservationLine) \cup Seq(ShipmentLine) \cup Seq(AdjustmentLine)
    BY <1>c, <2>b, Zenon
  <2>4. tx' \in Transaction
    BY <2>1, <2>3, Zenon DEF Transaction
  <2> QED BY <1>0, <1>c, <2>2, <2>a, <2>4, Zenon DEF TypeOK
<1>1. ASSUME NEW request \in ReservationRequests, BeginCreateReservations(request) PROVE TypeOK'
  BY <1>0, <1>1, <1>c, Zenon DEF BeginCreateReservations, Operations
<1>2. CASE ReserveLineReplayed
  BY <1>0, <1>2, <1>b, Zenon DEF ReserveLineReplayed, Running, Operations
<1>3. CASE ReserveLineWithoutInsert
  <2>1. Line \in ReservationLine
    BY <1>3, LineTypes, Zenon DEF ReserveLineWithoutInsert, Running
  <2>2. BackorderAfter(view, Line, ReserveQty(Line, Available(view, KeyOf[Line.slot]))) \subseteq Slots
    BY <1>0, <2>1, Zenon DEF BackorderAfter, Database, ReservationLine
  <2>3. view' \in Database
    BY <1>0, <1>3, <2>2, Zenon DEF ReserveLineWithoutInsert, Database
  <2> QED BY <1>3, <1>b, <2>3, Zenon DEF ReserveLineWithoutInsert, Running, Operations
<1>4. CASE ReserveLine
  <2> DEFINE s == Line.slot
             k == KeyOf[s]
             q == ReserveQty(Line, Available(view, k))
             b == ApplyDelta(view.balance[k], 0, q, 0)
             d == Change(view, s, NewReservation(Line, q), b)
  <2>1. Line \in ReservationLine /\ s \in Slots /\ k \in Keys
    BY <1>4, LineTypes, Zenon DEF ReserveLine, Running, ReservationLine
  <2>2. q \in Nat
    BY <1>0, <2>1, AvailableIsInt, TakenIsNat, Zenon
  <2>3. BackorderAfter(view, Line, q) \subseteq Slots
    BY <1>0, <2>1, Zenon DEF BackorderAfter, Database
  <2>4. view.balance[k] \in Balance
    BY <1>0, <2>1, Zenon DEF Database
  <2>5. view' = [d EXCEPT !.backorder = BackorderAfter(view, Line, q)]
    BY <1>4, Zenon DEF ReserveLine
  <2> HIDE DEF q
  <2>6. b \in Balance /\ NewReservation(Line, q) \in Reservation
    BY <2>1, <2>2, <2>4, ColumnTypes DEF ApplyDelta, Balance
  <2>7. d \in Database
    BY <1>0, <2>1, <2>6, ChangeRows
  <2> HIDE DEF d
  <2>8. view' \in Database
    BY <2>3, <2>5, <2>7, Zenon DEF Database
  <2> QED BY <1>4, <1>b, <2>8, Zenon DEF ReserveLine, Running, Operations
<1>d. ASSUME NEW s \in Slots, NEW r \in Reservation, NEW x \in Int, NEW y \in Int,
             Transition(s, r, x, y)
      PROVE  TypeOK'
  <2>1. ApplyDelta(db.balance[KeyOf[s]], 0, x, y) \in Balance
    BY <1>0 DEF Database, ApplyDelta, Balance
  <2>2. Change(db, s, r, ApplyDelta(db.balance[KeyOf[s]], 0, x, y)) \in Database
    BY <1>0, <2>1, ChangeRows
  <2> QED BY <1>a, <1>d, <2>2, Zenon DEF Transition, Install
<1>e. \A s \in Slots : /\ db.row[s] \in Reservation /\ Open(db.row[s]) \in Nat
                       /\ view.row[s] \in Reservation /\ Open(view.row[s]) \in Nat
  BY <1>0, OpenIsNat, Zenon DEF Database
<1>5. ASSUME NEW s \in Slots, AllocateReservation(s) PROVE TypeOK'
  <2>1. [db.row[s] EXCEPT !.status = "ALLOCATED"] \in Reservation
    BY <1>e, ColumnTypes, Zenon DEF Statuses, ActiveStatuses
  <2>2. -Open(db.row[s]) \in Int /\ Open(db.row[s]) \in Int
    BY <1>e
  <2> QED BY <1>5, <1>d, <2>1, <2>2, Zenon DEF AllocateReservation
<1>6. ASSUME NEW s \in Slots, CancelReservation(s) PROVE TypeOK'
  <2>1. [db.row[s] EXCEPT !.status = "CANCELLED"] \in Reservation
    BY <1>e, ColumnTypes, Zenon DEF Statuses, ActiveStatuses
  <2>2. (IF db.row[s].status = "RESERVED" THEN -Open(db.row[s]) ELSE 0) \in Int
        /\ (IF db.row[s].status = "ALLOCATED" THEN -Open(db.row[s]) ELSE 0) \in Int
    BY <1>e
  <2> QED BY <1>6, <1>d, <2>1, <2>2, Zenon DEF CancelReservation
<1>7. ASSUME NEW s \in Slots, NEW q \in FulfillQuantities, FulfillReservation(s, q) PROVE TypeOK'
  <2> DEFINE n == Least(q, Open(db.row[s]))
  <2>1. n \in Nat /\ -n \in Int /\ 0 \in Int
    BY <1>e DEF Least
  <2>2. Transition(s, Fulfilled(db.row[s], n), 0, -n)
    BY <1>7, Zenon DEF FulfillReservation
  <2> HIDE DEF n
  <2>3. Fulfilled(db.row[s], n) \in Reservation
    BY <1>e, <2>1, ColumnTypes, Zenon
  <2> QED BY <1>d, <2>1, <2>2, <2>3, Zenon
<1>8. ASSUME NEW s \in Slots, TimePasses(s) PROVE TypeOK'
  <2>1. [db EXCEPT !.row[s] = [@ EXCEPT !.expiry = "due"]] \in Database
    <3>1. [db.row[s] EXCEPT !.expiry = "due"] \in Reservation
      BY <1>e, Zenon DEF Reservation
    <3> QED BY <1>0, <3>1, Zenon DEF Database
  <2> QED BY <1>8, <1>a, <2>1, Zenon DEF TimePasses, Install
<1>9. ASSUME NEW due \in SUBSET Slots, BeginExpire(due) PROVE TypeOK'
  BY <1>0, <1>9, <1>c, Zenon DEF BeginExpire, Operations
<1>10. ASSUME NEW s \in Slots, ExpireRow(s) PROVE TypeOK'
  <2> DEFINE b == ApplyDelta(view.balance[KeyOf[s]], 0, -Open(view.row[s]), 0)
  <2>1. [view.row[s] EXCEPT !.status = "EXPIRED"] \in Reservation
    BY <1>e, ColumnTypes, Zenon DEF Statuses, ActiveStatuses
  <2>2. b \in Balance
    BY <1>0, <1>e DEF Database, ApplyDelta, Balance
  <2>3. view' = Change(view, s, [view.row[s] EXCEPT !.status = "EXPIRED"], b)
    BY <1>10, Zenon DEF ExpireRow
  <2> HIDE DEF b
  <2>4. view' \in Database
    BY <1>0, <2>1, <2>2, <2>3, ChangeRows
  <2> QED BY <1>0, <1>10, <2>4, Zenon DEF ExpireRow, TypeOK, Transaction
<1>11. ASSUME NEW h \in Shipments, NEW form \in ShipmentForms, CreateShipment(h, form) PROVE TypeOK'
  <2>1. [db EXCEPT !.shipment[h] = Draft(form)] \in Database
    <3>1. Draft(form) \in Shipment
      BY Zenon DEF Draft, Shipment
    <3> QED BY <1>0, <3>1, Zenon DEF Database
  <2> QED BY <1>11, <1>a, <2>1, Zenon DEF CreateShipment, Install
<1>12. ASSUME NEW h \in Shipments, NEW form \in ShipmentForms, BeginCreateShipment(h, form) PROVE TypeOK'
  <2>1. Draft(form) \in Shipment
    BY Zenon DEF Draft, Shipment
  <2>2. view' \in Database
    BY <1>0, <1>12, <2>1, Zenon DEF BeginCreateShipment, Database
  <2> QED BY <1>12, <1>c, <2>2, Zenon DEF BeginCreateShipment, Operations
<1>13. CASE AutoAllocateLineSkipped
  BY <1>0, <1>13, <1>b, Zenon DEF AutoAllocateLineSkipped, Running, Operations
<1>14. CASE AutoAllocateLine
  <2> DEFINE s == Line.slot
             n == Open(db.row[s])
             b == ApplyDelta(view.balance[KeyOf[s]], 0, -n, n)
             r == [view.row[s] EXCEPT !.status = "ALLOCATED"]
  <2>1. s \in Slots
    BY <1>14, LineTypes, Zenon DEF AutoAllocateLine, Running, ShipmentLine
  <2>2. r \in Reservation
    BY <1>e, <2>1, ColumnTypes, Zenon DEF Statuses, ActiveStatuses
  <2>3. b \in Balance
    <3>1. n \in Int /\ -n \in Int
      BY <1>e, <2>1
    <3> HIDE DEF n
    <3> QED BY <1>0, <2>1, <3>1, CommitmentType, Zenon
  <2>4. view' = Change(view, s, r, b)
    BY <1>14, Zenon DEF AutoAllocateLine
  <2> HIDE DEF b, r
  <2>5. view' \in Database
    BY <1>0, <2>1, <2>2, <2>3, <2>4, ChangeRows, Zenon
  <2> QED BY <1>14, <1>b, <2>5, Zenon DEF AutoAllocateLine, Running, Operations
<1>15. ASSUME NEW h \in Shipments, BeginPostShipment(h) PROVE TypeOK'
  <2>1. db.shipment[h].lines \in Seq(ShipmentLine)
    BY <1>0, Zenon DEF Database, Shipment
  <2> QED BY <1>0, <1>15, <1>c, <2>1, Zenon DEF BeginPostShipment, Operations
<1>16. CASE ShipLine
  <2> DEFINE s == Line.slot
             k == KeyOf[s]
             consume == ReserveConsume(Line)
             mid == IF consume > 0 THEN AllocatedForShipment(view.balance[k], view.row[s], consume)
                                   ELSE view.balance[k]
             b == ApplyDelta(mid, -Line.quantity, 0, -consume)
             r == IF consume > 0 THEN Fulfilled(view.row[s], consume) ELSE view.row[s]
             d == Change(view, s, r, b)
  <2>1. Line \in ShipmentLine /\ s \in Slots /\ k \in Keys
    BY <1>16, LineTypes, Zenon DEF ShipLine, Running, ShipmentLine
  <2>2. consume \in Nat /\ -consume \in Int /\ Line.quantity \in Nat /\ -Line.quantity \in Int
    BY <1>0, <2>1, TakenIsNat DEF ShipmentLine
  <2>3. view.balance[k] \in Balance
    BY <1>0, <2>1, Zenon DEF Database
  <2>4. view' = [d EXCEPT !.ledger[k].issue = @ + Line.quantity]
    BY <1>16, Zenon DEF ShipLine
  <2> HIDE DEF consume
  <2>5. mid \in Balance
    <3>1. consume \in Int
      BY <2>2
    <3> QED BY <2>3, <3>1, ShipmentAllocationType, Zenon
  <2> HIDE DEF mid
  <2>6. b \in Balance
    <3>1. consume \in Int /\ Line.quantity \in Int
      BY <2>2
    <3> QED BY <2>5, <3>1, IssueDeltaType, Zenon
  <2>a. r \in Reservation
    BY <1>e, <2>1, <2>2, ColumnTypes, Zenon
  <2> HIDE DEF b, r
  <2>7. d \in Database
    BY <1>0, <2>1, <2>6, <2>a, ChangeRows, Zenon
  <2> HIDE DEF d
  <2>8. view' \in Database
    <3>1. d.ledger[k] \in Movements
      BY <2>1, <2>7, Zenon DEF Database
    <3>2. [d.ledger[k] EXCEPT !.issue = @ + Line.quantity] \in Movements
      BY <2>2, <3>1, IssueType, Zenon
    <3> QED BY <2>1, <2>4, <2>7, <3>2, Zenon DEF Database
  <2> QED BY <1>16, <1>b, <2>8, Zenon DEF ShipLine, Running, Operations
<1>17. CASE CommitPostShipment
  <2>0. tx.doc \in Shipments
    BY <1>17, Zenon DEF CommitPostShipment, TypeOK
  <2>1. view.shipment[tx.doc] \in Shipment
    BY <1>0, <2>0, Zenon DEF Database
  <2>a. [view.shipment[tx.doc] EXCEPT !.status = "posted"] \in Shipment
    BY <2>1 DEF Shipment
  <2>2. db' \in Database
    BY <1>0, <1>17, <2>0, <2>a, Zenon DEF CommitPostShipment, Database
  <2> QED BY <1>17, <2>2 DEF CommitPostShipment, TypeOK, Idle, Transaction
<1>18. ASSUME NEW form \in AdjustmentForms, BeginPostAdjustment(form) PROVE TypeOK'
  BY <1>0, <1>18, <1>c, Zenon DEF BeginPostAdjustment, Operations
<1>19. CASE AdjustLine
  <2> DEFINE k == Line.key
  <2>1. k \in Keys /\ Line.delta \in Int
    BY <1>19, LineTypes, Zenon DEF AdjustLine, Running, AdjustmentLine
  <2>a. view.balance[k] \in Balance /\ view.ledger[k] \in Movements
    BY <1>0, <2>1, Zenon DEF Database
  <2>2. ApplyDelta(view.balance[k], Line.delta, 0, 0) \in Balance
    BY <2>1, <2>a DEF ApplyDelta, Balance
  <2>3. [view.ledger[k] EXCEPT !.adjustment = @ + Line.delta] \in Movements
    BY <2>1, <2>a, AdjustmentType, Zenon
  <2>4. view' \in Database
    BY <1>0, <1>19, <2>1, <2>2, <2>3, Zenon DEF AdjustLine, Database
  <2> QED BY <1>19, <1>b, <2>4, Zenon DEF AdjustLine, Running, Operations
<1>20. CASE Commit
  BY <1>0, <1>20 DEF Commit, TypeOK, Idle, Transaction
<1>21. CASE Abort
  BY <1>0, <1>21 DEF Abort, TypeOK, Idle, Transaction
<1>22. CASE UNCHANGED vars
  BY <1>22, Zenon DEF vars, TypeOK
<1> QED
  BY Zenon, <1>1, <1>2, <1>3, <1>4, <1>5, <1>6, <1>7, <1>8, <1>9, <1>10, <1>11, <1>12, <1>13, <1>14,
     <1>15, <1>16, <1>17, <1>18, <1>19, <1>20, <1>21, <1>22 DEF Next

(* The empty database is well typed.                                       *)
LEMMA InitTypeOK == Init => TypeOK
BY ConstantsAssumption DEF Init, EmptyDatabase, Idle, TypeOK, Database, Transaction, NoReservation,
   Reservation, Statuses, ActiveStatuses, Balance, Movements, Shipment, Operations

(* Every reachable state of every instance is well typed: no handler of    *)
(* orderToCash.service.ts ever writes a value its column cannot hold.      *)
THEOREM TypeCorrect == Spec => []TypeOK
BY InitTypeOK, TypeStep, PTL DEF Spec

-----------------------------------------------------------------------------
(* The balance projection                                                  *)

(* A database whose inventory_balance follows its ledger and is sound.     *)
Sound(d) ==
    \A k \in Keys :
        /\ d.balance[k].onHand = OnHand(d.ledger[k])
        /\ d.balance[k].reserved >= 0
        /\ d.balance[k].allocated >= 0
        /\ d.balance[k].reserved + d.balance[k].allocated <= d.balance[k].onHand

(* The committed tables are sound and so are the tables of the running     *)
(* transaction: LedgerProjected and BalanceSound made inductive.           *)
StockInv == TypeOK /\ Sound(db) /\ Sound(view)

(* A balance row the projector accepts is sound: this is what the guards   *)
(* of applyInventoryBalanceProjectionDelta are for.                        *)
LEMMA AcceptedDelta ==
    ASSUME NEW b \in Balance, NEW w \in Int, NEW x \in Int, NEW y \in Int,
           b.reserved >= 0, b.allocated >= 0, b.reserved + b.allocated <= b.onHand,
           DeltaOK(b, w, x, y)
    PROVE  LET c == ApplyDelta(b, w, x, y) IN
           /\ c \in Balance
           /\ c.onHand = b.onHand + w
           /\ c.reserved = b.reserved + x
           /\ c.allocated = b.allocated + y
           /\ c.reserved >= 0
           /\ c.allocated >= 0
           /\ c.reserved + c.allocated <= c.onHand
BY DEF ApplyDelta, DeltaOK, Balance

(* Soundness reads the balance and the ledger only.                        *)
LEMMA SoundFrame ==
    ASSUME NEW d, NEW e, Sound(d), e.balance = d.balance, e.ledger = d.ledger
    PROVE  Sound(e)
BY Zenon DEF Sound

(* An accepted issue leaves a sound balance row.                           *)
LEMMA AcceptedIssue ==
    ASSUME NEW b \in Balance, NEW q \in Int, NEW n \in Int,
           b.reserved >= 0, b.allocated >= 0, b.reserved + b.allocated <= b.onHand,
           DeltaOK(b, -q, 0, -n)
    PROVE  LET c == ApplyDelta(b, -q, 0, -n) IN
           /\ c \in Balance /\ c.onHand = b.onHand - q /\ c.reserved >= 0 /\ c.allocated >= 0
           /\ c.reserved + c.allocated <= c.onHand
BY DEF DeltaOK, ApplyDelta, Balance

(* Issuing q units lowers the on-hand quantity by q.                       *)
LEMMA OnHandAfterIssue ==
    ASSUME NEW m \in Movements, NEW q \in Nat
    PROVE  OnHand([m EXCEPT !.issue = @ + q]) = OnHand(m) - q
BY DEF OnHand, Movements

(* A commitment operation preserves soundness.                             *)
LEMMA SoundCommitment ==
    ASSUME NEW d \in Database, NEW s \in Slots, NEW r \in Reservation,
           NEW x \in Int, NEW y \in Int, Sound(d), DeltaOK(d.balance[KeyOf[s]], 0, x, y)
    PROVE  Sound(Change(d, s, r, ApplyDelta(d.balance[KeyOf[s]], 0, x, y)))
<1> DEFINE k == KeyOf[s]
           c == ApplyDelta(d.balance[k], 0, x, y)
           e == Change(d, s, r, c)
<1>1. k \in Keys /\ d.balance[k] \in Balance /\ d.balance \in [Keys -> Balance]
  BY ConstantsAssumption, Zenon DEF Database
<1>2. /\ c \in Balance /\ c.onHand = d.balance[k].onHand
      /\ c.reserved >= 0 /\ c.allocated >= 0 /\ c.reserved + c.allocated <= c.onHand
  <2>1. d.balance[k].reserved >= 0 /\ d.balance[k].allocated >= 0
        /\ d.balance[k].reserved + d.balance[k].allocated <= d.balance[k].onHand
    BY <1>1, Zenon DEF Sound
  <2>2. 0 \in Int /\ d.balance[k].onHand \in Int /\ DeltaOK(d.balance[k], 0, x, y)
    BY <1>1 DEF Balance
  <2> DEFINE b == d.balance[k]
  <2> HIDE DEF b
  <2>3. /\ c \in Balance /\ c.onHand = b.onHand + 0
        /\ c.reserved >= 0 /\ c.allocated >= 0 /\ c.reserved + c.allocated <= c.onHand
    <3>1. b \in Balance /\ c = ApplyDelta(b, 0, x, y) /\ DeltaOK(b, 0, x, y)
      BY <1>1, <2>2, Zenon DEF b
    <3>2. b.reserved >= 0 /\ b.allocated >= 0 /\ b.reserved + b.allocated <= b.onHand
      BY <2>1, Zenon DEF b
    <3> HIDE DEF c
    <3> QED BY <2>2, <3>1, <3>2, AcceptedDelta
  <2> QED BY <2>2, <2>3 DEF b
<1> HIDE DEF c
<1>a. c \in Balance
  BY <1>2, Zenon
<1>3. /\ e.balance[k] = c /\ \A j \in Keys : j # k => e.balance[j] = d.balance[j]
      /\ e.ledger = d.ledger
  BY <1>a, ChangeRows
<1> HIDE DEF e
<1>4. Sound(e)
  BY <1>1, <1>2, <1>3, Zenon DEF Sound
<1> QED BY <1>4, Zenon DEF e, c

(* Every step of every handler preserves soundness.                        *)
LEMMA StockStep == StockInv /\ [Next]_vars => StockInv'
<1> SUFFICES ASSUME StockInv, [Next]_vars PROVE Sound(db)' /\ Sound(view)'
  BY TypeStep, Zenon DEF StockInv
<1> USE ConstantsAssumption
<1>0. /\ TypeOK /\ Sound(db) /\ Sound(view)
      /\ db \in Database /\ view \in Database /\ tx \in Transaction
  BY Zenon DEF StockInv, TypeOK
<1>a. ASSUME UNCHANGED db, view'.balance = view.balance, view'.ledger = view.ledger
      PROVE  Sound(db)' /\ Sound(view)'
  BY <1>0, <1>a, Zenon DEF Sound
<1>b. ASSUME NEW d, Install(d), Sound(d) PROVE Sound(db)' /\ Sound(view)'
  BY <1>b DEF Install, Sound
<1>c. ASSUME UNCHANGED db, NEW d, view' = d, Sound(d) PROVE Sound(db)' /\ Sound(view)'
  BY <1>0, <1>c, Zenon DEF Sound
<1>d. ASSUME NEW s \in Slots, NEW r \in Reservation, NEW x \in Int, NEW y \in Int,
             Transition(s, r, x, y)
      PROVE  Sound(db)' /\ Sound(view)'
  BY <1>0, <1>b, <1>d, SoundCommitment, Zenon DEF Transition
<1>e. \A s \in Slots : /\ db.row[s] \in Reservation /\ Open(db.row[s]) \in Nat
                       /\ view.row[s] \in Reservation /\ Open(view.row[s]) \in Nat
  BY <1>0, OpenIsNat, Zenon DEF Database
<1>1. ASSUME NEW request \in ReservationRequests, BeginCreateReservations(request)
      PROVE  Sound(db)' /\ Sound(view)'
  BY <1>1, <1>a, Zenon DEF BeginCreateReservations
<1>2. CASE ReserveLineReplayed
  BY <1>2, <1>a, Zenon DEF ReserveLineReplayed
<1>3. CASE ReserveLineWithoutInsert
  <2>1. view'.balance = view.balance /\ view'.ledger = view.ledger
    BY <1>0, <1>3, Zenon DEF ReserveLineWithoutInsert, Database
  <2> QED BY <1>3, <1>a, <2>1, Zenon DEF ReserveLineWithoutInsert
<1>4. CASE ReserveLine
  <2> DEFINE s == Line.slot
             k == KeyOf[s]
             q == ReserveQty(Line, Available(view, k))
             r == NewReservation(Line, q)
             d == Change(view, s, r, ApplyDelta(view.balance[k], 0, q, 0))
  <2>1. Line \in ReservationLine /\ s \in Slots /\ k \in Keys
    BY <1>0, <1>4, LineTypes, Zenon DEF ReserveLine, Running, ReservationLine
  <2>2. q \in Nat
    BY <1>0, <2>1, AvailableIsInt, TakenIsNat, Zenon
  <2>3. /\ view' = [d EXCEPT !.backorder = BackorderAfter(view, Line, q)]
        /\ DeltaOK(view.balance[k], 0, q, 0) /\ UNCHANGED db
    BY <1>4, Zenon DEF ReserveLine
  <2> HIDE DEF q
  <2>4. r \in Reservation
    BY <2>1, <2>2, ColumnTypes
  <2> HIDE DEF r
  <2>5. Sound(d)
    <3>1. q \in Int /\ 0 \in Int
      BY <2>2
    <3> QED BY <1>0, <2>1, <2>3, <2>4, <3>1, SoundCommitment, Zenon
  <2>6. ApplyDelta(view.balance[k], 0, q, 0) \in Balance
    BY <1>0, <2>1, <2>2, SMTT(20) DEF ApplyDelta, Balance, Database
  <2>7. d \in Database
    BY <1>0, <2>1, <2>4, <2>6, ChangeRows
  <2> HIDE DEF d
  <2>8. view'.balance = d.balance /\ view'.ledger = d.ledger
    BY <2>3, <2>7, Zenon DEF Database
  <2>9. Sound(view)'
    BY <2>5, <2>8, Zenon DEF Sound
  <2> QED BY <1>0, <2>3, <2>9, Zenon DEF Sound
<1>5. ASSUME NEW s \in Slots, AllocateReservation(s) PROVE Sound(db)' /\ Sound(view)'
  <2>1. [db.row[s] EXCEPT !.status = "ALLOCATED"] \in Reservation
    BY <1>e, ColumnTypes, Zenon DEF Statuses, ActiveStatuses
  <2>2. -Open(db.row[s]) \in Int /\ Open(db.row[s]) \in Int
    BY <1>e
  <2> QED BY <1>5, <1>d, <2>1, <2>2, Zenon DEF AllocateReservation
<1>6. ASSUME NEW s \in Slots, CancelReservation(s) PROVE Sound(db)' /\ Sound(view)'
  <2>1. [db.row[s] EXCEPT !.status = "CANCELLED"] \in Reservation
    BY <1>e, ColumnTypes, Zenon DEF Statuses, ActiveStatuses
  <2>2. (IF db.row[s].status = "RESERVED" THEN -Open(db.row[s]) ELSE 0) \in Int
        /\ (IF db.row[s].status = "ALLOCATED" THEN -Open(db.row[s]) ELSE 0) \in Int
    BY <1>e
  <2> QED BY <1>6, <1>d, <2>1, <2>2, Zenon DEF CancelReservation
<1>7. ASSUME NEW s \in Slots, NEW q \in FulfillQuantities, FulfillReservation(s, q)
      PROVE  Sound(db)' /\ Sound(view)'
  <2> DEFINE n == Least(q, Open(db.row[s]))
  <2>1. n \in Nat /\ -n \in Int /\ 0 \in Int
    BY <1>e DEF Least
  <2>2. Transition(s, Fulfilled(db.row[s], n), 0, -n)
    BY <1>7, Zenon DEF FulfillReservation
  <2> HIDE DEF n
  <2>3. Fulfilled(db.row[s], n) \in Reservation
    BY <1>e, <2>1, ColumnTypes
  <2> QED BY <1>d, <2>1, <2>2, <2>3
<1>8. ASSUME NEW s \in Slots, TimePasses(s) PROVE Sound(db)' /\ Sound(view)'
  <2> DEFINE d == [db EXCEPT !.row[s] = [@ EXCEPT !.expiry = "due"]]
  <2>1. Install(d) /\ d.balance = db.balance /\ d.ledger = db.ledger
    BY <1>0, <1>8, Zenon DEF TimePasses, Database
  <2> HIDE DEF d
  <2> QED BY <1>0, <1>b, <2>1, SoundFrame, Zenon
<1>9. ASSUME NEW due \in SUBSET Slots, BeginExpire(due) PROVE Sound(db)' /\ Sound(view)'
  BY <1>9, <1>a DEF BeginExpire
<1>10. ASSUME NEW s \in Slots, ExpireRow(s) PROVE Sound(db)' /\ Sound(view)'
  <2>1. [view.row[s] EXCEPT !.status = "EXPIRED"] \in Reservation
    BY <1>e, ColumnTypes, Zenon DEF Statuses, ActiveStatuses
  <2>2. -Open(view.row[s]) \in Int /\ 0 \in Int
    BY <1>e
  <2> QED BY <1>0, <1>10, <1>c, <2>1, <2>2, SoundCommitment, Zenon DEF ExpireRow
<1>11. ASSUME NEW h \in Shipments, NEW form \in ShipmentForms, CreateShipment(h, form)
       PROVE  Sound(db)' /\ Sound(view)'
  <2> DEFINE d == [db EXCEPT !.shipment[h] = Draft(form)]
  <2>1. Install(d) /\ d.balance = db.balance /\ d.ledger = db.ledger
    BY <1>0, <1>11, Zenon DEF CreateShipment, Database
  <2> HIDE DEF d
  <2> QED BY <1>0, <1>b, <2>1, SoundFrame, Zenon
<1>12. ASSUME NEW h \in Shipments, NEW form \in ShipmentForms, BeginCreateShipment(h, form)
       PROVE  Sound(db)' /\ Sound(view)'
  <2>1. view'.balance = view.balance /\ view'.ledger = view.ledger /\ UNCHANGED db
    BY <1>0, <1>12, Zenon DEF BeginCreateShipment, Database
  <2> QED BY <1>a, <2>1, Zenon
<1>13. CASE AutoAllocateLineSkipped
  BY <1>13, <1>a, Zenon DEF AutoAllocateLineSkipped
<1>14. CASE AutoAllocateLine
  <2> DEFINE s == Line.slot
             n == Open(db.row[s])
             r == [view.row[s] EXCEPT !.status = "ALLOCATED"]
  <2>1. s \in Slots
    BY <1>0, <1>14, LineTypes DEF AutoAllocateLine, Running, ShipmentLine
  <2>2. r \in Reservation
    BY <1>e, <2>1, ColumnTypes, Zenon DEF Statuses, ActiveStatuses
  <2>3. n \in Int /\ -n \in Int
    BY <1>e, <2>1
  <2>4. /\ DeltaOK(view.balance[KeyOf[s]], 0, -n, n)
        /\ view' = Change(view, s, r, ApplyDelta(view.balance[KeyOf[s]], 0, -n, n))
        /\ UNCHANGED db
    BY <1>14, Zenon DEF AutoAllocateLine
  <2> HIDE DEF n, r
  <2> QED BY <1>0, <1>c, <2>1, <2>2, <2>3, <2>4, SoundCommitment, Zenon
<1>15. ASSUME NEW h \in Shipments, BeginPostShipment(h) PROVE Sound(db)' /\ Sound(view)'
  BY <1>15, <1>a DEF BeginPostShipment
<1>16. CASE ShipLine
  <2> DEFINE s == Line.slot
             k == KeyOf[s]
             qty == Line.quantity
             n == ReserveConsume(Line)
             row == view.row[s]
             b == view.balance[k]
             mid == IF n > 0 THEN AllocatedForShipment(b, row, n) ELSE b
             c == ApplyDelta(mid, -qty, 0, -n)
             r == IF n > 0 THEN Fulfilled(row, n) ELSE row
             d == Change(view, s, r, c)
  <2>1. Line \in ShipmentLine /\ s \in Slots /\ k \in Keys
    BY <1>0, <1>16, LineTypes, Zenon DEF ShipLine, Running, ShipmentLine
  <2>2. n \in Nat /\ -n \in Int /\ qty \in Nat /\ -qty \in Int
    BY <1>0, <2>1, TakenIsNat DEF ShipmentLine
  <2>3. b \in Balance /\ view.balance \in [Keys -> Balance]
    BY <1>0, <2>1, Zenon DEF Database
  <2>4. /\ view' = [d EXCEPT !.ledger[k].issue = @ + qty]
        /\ n > 0 /\ row.status = "RESERVED" => DeltaOK(b, 0, -n, n)
        /\ DeltaOK(mid, -qty, 0, -n)
        /\ UNCHANGED db
    BY <1>16, Zenon DEF ShipLine
  <2> HIDE DEF n
  <2>5. /\ b.onHand = OnHand(view.ledger[k]) /\ b.reserved >= 0 /\ b.allocated >= 0
        /\ b.reserved + b.allocated <= b.onHand
    BY <1>0, <2>1, Zenon DEF Sound
  <2> HIDE DEF b
  <2>6. /\ mid \in Balance /\ mid.onHand = b.onHand /\ mid.reserved >= 0 /\ mid.allocated >= 0
        /\ mid.reserved + mid.allocated <= mid.onHand
    <3>1. CASE n > 0 /\ row.status = "RESERVED"
      <4>1. DeltaOK(b, 0, -n, n) /\ mid = ApplyDelta(b, 0, -n, n)
        BY <2>4, <3>1, Zenon DEF AllocatedForShipment
      <4> HIDE DEF mid
      <4>2. b.reserved >= 0 /\ b.allocated >= 0 /\ b.reserved + b.allocated <= b.onHand
        BY <2>5, Zenon
      <4>3. 0 \in Int /\ n \in Int /\ -n \in Int /\ b.onHand \in Int
        BY <2>2, <2>3 DEF Balance
      <4>4. /\ mid \in Balance /\ mid.onHand = b.onHand + 0 /\ mid.reserved >= 0
            /\ mid.allocated >= 0 /\ mid.reserved + mid.allocated <= mid.onHand
        BY <2>3, <4>1, <4>2, <4>3, AcceptedDelta
      <4> QED BY <4>3, <4>4
    <3>2. CASE ~(n > 0 /\ row.status = "RESERVED")
      BY <2>3, <2>5, <3>2, Zenon DEF AllocatedForShipment
    <3> QED BY <3>1, <3>2, Zenon
  <2> HIDE DEF mid
  <2>7. /\ c \in Balance /\ c.onHand = b.onHand - qty /\ c.reserved >= 0 /\ c.allocated >= 0
        /\ c.reserved + c.allocated <= c.onHand
    <3>1. DeltaOK(mid, -qty, 0, -n)
      BY <2>4, Zenon
    <3>2. n \in Int /\ qty \in Int
      BY <2>2
    <3> QED BY <2>6, <3>1, <3>2, AcceptedIssue
  <2>8. r \in Reservation /\ c \in Balance
    BY <1>e, <2>1, <2>2, <2>7, ColumnTypes, Zenon
  <2> HIDE DEF c, r
  <2>9. /\ d \in Database /\ d.ledger = view.ledger /\ d.balance[k] = c
        /\ \A x \in Keys : x # k => d.balance[x] = view.balance[x]
    BY <1>0, <2>1, <2>8, ChangeRows
  <2> HIDE DEF d
  <2>10. /\ view'.balance = d.balance
         /\ view'.ledger = [view.ledger EXCEPT ![k].issue = @ + qty]
    BY <2>4, <2>9, Zenon DEF Database
  <2>11. view.ledger \in [Keys -> Movements]
    BY <1>0, Zenon DEF Database
  <2>12. ASSUME NEW x \in Keys
         PROVE  /\ view'.balance[x].onHand = OnHand(view'.ledger[x])
                /\ view'.balance[x].reserved >= 0
                /\ view'.balance[x].allocated >= 0
                /\ view'.balance[x].reserved + view'.balance[x].allocated <= view'.balance[x].onHand
    <3>1. CASE x = k
      <4>1. view'.balance[x] = c
        BY <2>9, <2>10, <3>1, Zenon
      <4>2. /\ view'.ledger[x] = [view.ledger[k] EXCEPT !.issue = @ + qty]
            /\ view.ledger[k] \in Movements
        BY <2>1, <2>10, <2>11, <3>1
      <4>3. OnHand(view'.ledger[x]) = OnHand(view.ledger[k]) - qty
        BY <2>2, <4>2, OnHandAfterIssue, Zenon
      <4>4. c.onHand = OnHand(view'.ledger[x])
        BY <2>5, <2>7, <4>3, Zenon
      <4> QED BY <2>7, <4>1, <4>4, Zenon
    <3>2. CASE x # k
      <4>1. view'.balance[x] = view.balance[x] /\ view'.ledger[x] = view.ledger[x]
        BY <2>9, <2>10, <2>11, <3>2, Zenon
      <4> QED BY <1>0, <4>1, Zenon DEF Sound
    <3> QED BY <3>1, <3>2, Zenon
  <2> QED BY <1>0, <2>4, <2>12, Zenon DEF Sound
<1>17. CASE CommitPostShipment
  <2>1. db' = [view EXCEPT !.shipment[tx.doc].status = "posted"] /\ view' = db'
    BY <1>17, Zenon DEF CommitPostShipment
  <2>2. db'.balance = view.balance /\ db'.ledger = view.ledger
    BY <1>0, <2>1, Zenon DEF Database
  <2> QED BY <1>0, <2>1, <2>2, Zenon DEF Sound
<1>18. ASSUME NEW form \in AdjustmentForms, BeginPostAdjustment(form) PROVE Sound(db)' /\ Sound(view)'
  BY <1>18, <1>a, Zenon DEF BeginPostAdjustment
<1>19. CASE AdjustLine
  <2> DEFINE k == Line.key
             n == Line.delta
             c == ApplyDelta(view.balance[k], n, 0, 0)
  <2>1. k \in Keys /\ n \in Int
    BY <1>0, <1>19, LineTypes, Zenon DEF AdjustLine, Running, AdjustmentLine
  <2>2. view.balance[k] \in Balance /\ view.balance \in [Keys -> Balance]
        /\ view.ledger[k] \in Movements /\ view.ledger \in [Keys -> Movements]
    BY <1>0, <2>1, Zenon DEF Database
  <2>3. /\ DeltaOK(view.balance[k], n, 0, 0) /\ UNCHANGED db
        /\ view' = [view EXCEPT !.ledger[k].adjustment = @ + n, !.balance[k] = c]
    BY <1>19 DEF AdjustLine
  <2>4. /\ view.balance[k].onHand = OnHand(view.ledger[k])
        /\ view.balance[k].reserved >= 0 /\ view.balance[k].allocated >= 0
        /\ view.balance[k].reserved + view.balance[k].allocated <= view.balance[k].onHand
    BY <1>0, <2>1, Zenon DEF Sound
  <2>5. /\ c \in Balance /\ c.onHand = view.balance[k].onHand + n
        /\ c.reserved >= 0 /\ c.allocated >= 0 /\ c.reserved + c.allocated <= c.onHand
    <3>1. 0 \in Int
      OBVIOUS
    <3>2. /\ c \in Balance /\ c.onHand = view.balance[k].onHand + n
          /\ c.reserved >= 0 /\ c.allocated >= 0 /\ c.reserved + c.allocated <= c.onHand
      <4> DEFINE b == view.balance[k]
      <4>1. b \in Balance /\ DeltaOK(b, n, 0, 0) /\ c = ApplyDelta(b, n, 0, 0) /\ n \in Int
        BY <2>1, <2>2, <2>3, Zenon
      <4>2. b.reserved >= 0 /\ b.allocated >= 0 /\ b.reserved + b.allocated <= b.onHand
        BY <2>4, Zenon
      <4> HIDE DEF b, c, n
      <4>3. /\ c \in Balance /\ c.onHand = b.onHand + n
            /\ c.reserved >= 0 /\ c.allocated >= 0 /\ c.reserved + c.allocated <= c.onHand
        BY <3>1, <4>1, <4>2, AcceptedDelta
      <4> QED BY <4>3, Zenon DEF b
    <3> QED BY <3>2, Zenon
  <2> HIDE DEF c
  <2>6. /\ view'.balance = [view.balance EXCEPT ![k] = c]
        /\ view'.ledger = [view.ledger EXCEPT ![k].adjustment = @ + n]
    BY <1>0, <2>3, Zenon DEF Database
  <2>7. ASSUME NEW x \in Keys
        PROVE  /\ view'.balance[x].onHand = OnHand(view'.ledger[x])
               /\ view'.balance[x].reserved >= 0
               /\ view'.balance[x].allocated >= 0
               /\ view'.balance[x].reserved + view'.balance[x].allocated <= view'.balance[x].onHand
    <3>1. CASE x = k
      <4>1. view'.balance[x] = c
        BY <2>2, <2>6, <3>1, Zenon
      <4>2. view'.ledger[x].issue = view.ledger[k].issue
            /\ view'.ledger[x].adjustment = view.ledger[k].adjustment + n
            /\ view.ledger[k].issue \in Int /\ view.ledger[k].adjustment \in Int
        BY <2>1, <2>2, <2>6, <3>1 DEF Movements
      <4> QED BY <2>1, <2>4, <2>5, <4>1, <4>2 DEF OnHand
    <3>2. CASE x # k
      <4>1. view'.balance[x] = view.balance[x] /\ view'.ledger[x] = view.ledger[x]
        BY <2>2, <2>6, <3>2
      <4> QED BY <1>0, <4>1, Zenon DEF Sound
    <3> QED BY <3>1, <3>2, Zenon
  <2> QED BY <1>0, <2>3, <2>7, Zenon DEF Sound
<1>20. CASE Commit
  BY <1>0, <1>20, Zenon DEF Commit, Sound
<1>21. CASE Abort
  BY <1>0, <1>21, Zenon DEF Abort, Sound
<1>22. CASE UNCHANGED vars
  BY <1>0, <1>22, Zenon DEF vars, Sound
<1> QED
  BY Zenon, <1>1, <1>2, <1>3, <1>4, <1>5, <1>6, <1>7, <1>8, <1>9, <1>10, <1>11, <1>12, <1>13, <1>14,
     <1>15, <1>16, <1>17, <1>18, <1>19, <1>20, <1>21, <1>22 DEF Next

(* Whatever is requested, adjusted and shipped, and wherever a handler     *)
(* fails, the committed inventory_balance shows the ledger's on-hand.      *)
THEOREM LedgerIsProjected == Spec => []LedgerProjected
<1>1. Init => StockInv
  <2>1. Init => TypeOK
    BY InitTypeOK, Zenon
  <2> QED BY <2>1 DEF Init, EmptyDatabase, StockInv, Sound, OnHand
<1>2. StockInv => LedgerProjected
  BY Zenon DEF StockInv, Sound, LedgerProjected
<1> QED BY <1>1, <1>2, StockStep, PTL DEF Spec

(* The projector's guards suffice: no committed balance row promises more  *)
(* than is on hand, so chk_inventory_balance_nonneg never fires.           *)
THEOREM BalanceIsSound == Spec => []BalanceSound
<1>1. Init => StockInv
  <2>1. Init => TypeOK
    BY InitTypeOK, Zenon
  <2> QED BY <2>1 DEF Init, EmptyDatabase, StockInv, Sound, OnHand
<1>2. StockInv => BalanceSound
  BY Zenon DEF StockInv, Sound, BalanceSound
<1> QED BY <1>1, <1>2, StockStep, PTL DEF Spec

-----------------------------------------------------------------------------
(* Lifecycle                                                               *)

(* No row is fulfilled beyond what it reserved.                            *)
Bounded(r) == r.fulfilled <= r.reserved

(* ReservationLifecycle made inductive: the running transaction has only   *)
(* moved rows forward, and the rows the expiry job still has to expire are *)
(* as it found them.                                                       *)
LifecycleInv ==
    /\ TypeOK
    /\ \A s \in Slots :
          /\ Bounded(db.row[s])
          /\ Bounded(view.row[s])
          /\ LifecycleStep(db.row[s], view.row[s])
          /\ tx.op = "expire" /\ s \in tx.due => view.row[s].status = "RESERVED"

(* The moves the handlers make, each under the status it requires.         *)
LEMMA LifecycleMoves ==
    ASSUME NEW r \in Reservation, Bounded(r)
    PROVE  /\ LifecycleStep(r, r)
           /\ r.status = "RESERVED" =>
                /\ LifecycleStep(r, [r EXCEPT !.status = "ALLOCATED"])
                /\ LifecycleStep(r, [r EXCEPT !.status = "EXPIRED"])
                /\ LifecycleStep(r, [r EXCEPT !.expiry = "due"])
           /\ Active(r) =>
                /\ LifecycleStep(r, [r EXCEPT !.status = "CANCELLED"])
                /\ \A n \in Nat : LifecycleStep(r, Fulfilled(r, n))
           /\ \A n \in Nat : Bounded(Fulfilled(r, n))
           /\ Bounded([r EXCEPT !.expiry = "due"])
           /\ \A st \in Statuses : Bounded([r EXCEPT !.status = st])
<1> USE DEF Reservation, Bounded, ActiveStatuses, Statuses
<1>1. LifecycleStep(r, r)
  BY DEF LifecycleStep, Active
<1>2. ASSUME r.status = "RESERVED"
      PROVE  /\ LifecycleStep(r, [r EXCEPT !.status = "ALLOCATED"])
             /\ LifecycleStep(r, [r EXCEPT !.status = "EXPIRED"])
             /\ LifecycleStep(r, [r EXCEPT !.expiry = "due"])
  BY <1>2 DEF LifecycleStep, Active
<1>3. ASSUME Active(r) PROVE LifecycleStep(r, [r EXCEPT !.status = "CANCELLED"])
  BY <1>3 DEF LifecycleStep, Active
<1>4. ASSUME NEW n \in Nat
      PROVE  /\ Bounded(Fulfilled(r, n))
             /\ Active(r) => LifecycleStep(r, Fulfilled(r, n))
  <2> DEFINE total == Least(r.reserved, r.fulfilled + n)
             q == Fulfilled(r, n)
  <2>1. total \in Nat /\ total <= r.reserved /\ r.fulfilled <= total
    BY DEF Least
  <2>2. /\ q.fulfilled = total /\ q.reserved = r.reserved
        /\ q.status \in {"FULFILLED", "ALLOCATED"}
    BY Zenon DEF Fulfilled
  <2> HIDE DEF total, q
  <2>3. Bounded(q)
    BY <2>1, <2>2, Zenon
  <2>4. Active(r) => LifecycleStep(r, q)
    BY <2>1, <2>2, Zenon DEF LifecycleStep, Active
  <2> QED BY <2>3, <2>4, Zenon DEF q
<1>5. Bounded([r EXCEPT !.expiry = "due"]) /\ \A st \in Statuses : Bounded([r EXCEPT !.status = st])
  BY Zenon
<1> QED BY <1>1, <1>2, <1>3, <1>4, <1>5, Zenon

(* Two moves forward are a move forward.                                   *)
LEMMA LifecycleTransitive ==
    ASSUME NEW p \in Reservation, NEW q \in Reservation, NEW r \in Reservation,
           LifecycleStep(p, q), LifecycleStep(q, r)
    PROVE  LifecycleStep(p, r)
BY SMTT(20) DEF LifecycleStep, Active, Reservation, Statuses, ActiveStatuses

(* Every step keeps the invariant and moves the committed rows forward.    *)
LEMMA LifecycleInvStep ==
    LifecycleInv /\ [Next]_vars =>
        LifecycleInv' /\ \A s \in Slots : LifecycleStep(db.row[s], db'.row[s])
<1> DEFINE Goal == LifecycleInv' /\ \A s \in Slots : LifecycleStep(db.row[s], db'.row[s])
<1> SUFFICES ASSUME LifecycleInv, [Next]_vars PROVE Goal
  BY Zenon
<1> USE ConstantsAssumption
<1>0. /\ TypeOK /\ TypeOK' /\ db \in Database /\ view \in Database /\ tx \in Transaction
      /\ tx.op = "idle" => tx = Idle /\ view = db
      /\ db' \in Database /\ view' \in Database
  BY TypeStep, Zenon DEF LifecycleInv, TypeOK
<1>r. \A s \in Slots : /\ db.row[s] \in Reservation /\ Bounded(db.row[s])
                       /\ view.row[s] \in Reservation /\ Bounded(view.row[s])
                       /\ db'.row[s] \in Reservation /\ view'.row[s] \in Reservation
                       /\ Open(db.row[s]) \in Nat
                       /\ LifecycleStep(db.row[s], view.row[s])
                       /\ LifecycleStep(db.row[s], db.row[s])
  BY <1>0, LifecycleMoves, OpenIsNat, Zenon DEF LifecycleInv, Database
<1>a. ASSUME UNCHANGED db, view'.row = view.row,
             tx'.op = "expire" => \A s \in tx'.due : view.row[s].status = "RESERVED"
      PROVE  Goal
  BY <1>0, <1>r, <1>a, Zenon DEF LifecycleInv
<1>b. ASSUME NEW s \in Slots, UNCHANGED db, \A x \in Slots : x # s => view'.row[x] = view.row[x],
             LifecycleStep(view.row[s], view'.row[s]), Bounded(view'.row[s]),
             tx'.op = "expire" => \A x \in tx'.due : x # s /\ x \in tx.due /\ tx.op = "expire"
      PROVE  Goal
  <2>1. LifecycleStep(db.row[s], view'.row[s])
    BY <1>r, <1>b, LifecycleTransitive
  <2> QED BY <1>0, <1>r, <1>b, <2>1, Zenon DEF LifecycleInv
<1>c. ASSUME NEW s \in Slots, tx = Idle, NEW d, Install(d), \A x \in Slots : x # s => d.row[x] = db.row[x],
             LifecycleStep(db.row[s], d.row[s]), Bounded(d.row[s])
      PROVE  Goal
  <2>1. db' = d /\ view' = d /\ tx' = Idle
    BY <1>c, Zenon DEF Install
  <2>2. \A x \in Slots : LifecycleStep(db'.row[x], view'.row[x])
    <3>1. \A x \in Slots : db'.row[x] \in Reservation /\ Bounded(db'.row[x])
      BY <1>r, <1>c, <2>1, Zenon
    <3> QED BY <2>1, <3>1, LifecycleMoves, Zenon
  <2> QED BY <1>0, <1>r, <1>c, <2>1, <2>2, Zenon DEF LifecycleInv, Idle
<1>d. ASSUME NEW s \in Slots, NEW r \in Reservation, NEW x \in Int, NEW y \in Int,
             Transition(s, r, x, y), LifecycleStep(db.row[s], r), Bounded(r)
      PROVE  Goal
  <2> DEFINE c == ApplyDelta(db.balance[KeyOf[s]], 0, x, y)
             e == Change(db, s, r, c)
  <2>1. tx = Idle /\ Install(e)
    BY <1>d DEF Transition
  <2>2. c \in Balance
    BY <1>0, CommitmentType, Zenon
  <2> HIDE DEF c
  <2>3. e.row[s] = r /\ \A z \in Slots : z # s => e.row[z] = db.row[z]
    BY <1>0, <2>2, ChangeRows
  <2> HIDE DEF e
  <2> QED BY <1>c, <1>d, <2>1, <2>3, Zenon
<1>1. ASSUME NEW request \in ReservationRequests, BeginCreateReservations(request) PROVE Goal
  BY <1>1, <1>a, Zenon DEF BeginCreateReservations, Begin
<1>n. ASSUME NextLine PROVE tx'.op = tx.op
  BY <1>0, <1>n, Zenon DEF NextLine, Transaction
<1>2. CASE ReserveLineReplayed
  BY <1>2, <1>a, <1>n DEF ReserveLineReplayed, Running
<1>3. CASE ReserveLineWithoutInsert
  <2>1. view'.row = view.row
    BY <1>0, <1>3, Zenon DEF ReserveLineWithoutInsert, Database
  <2> QED BY <1>3, <1>a, <1>n, <2>1, Zenon DEF ReserveLineWithoutInsert, Running
<1>4. CASE ReserveLine
  <2> DEFINE s == Line.slot
             k == KeyOf[s]
             q == ReserveQty(Line, Available(view, k))
             r == NewReservation(Line, q)
             c == ApplyDelta(view.balance[k], 0, q, 0)
             d == Change(view, s, r, c)
  <2>1. Line \in ReservationLine /\ s \in Slots /\ k \in Keys
    BY <1>0, <1>4, LineTypes, Zenon DEF ReserveLine, Running, ReservationLine
  <2>2. q \in Nat
    BY <1>0, <2>1, AvailableIsInt, TakenIsNat, Zenon
  <2>3. /\ view' = [d EXCEPT !.backorder = BackorderAfter(view, Line, q)]
        /\ view.row[s].status = "NONE" /\ UNCHANGED db /\ tx.op = "createReservations" /\ NextLine
    BY <1>4, Zenon DEF ReserveLine, Running
  <2> HIDE DEF q
  <2>4. r \in Reservation
    BY <2>1, <2>2, ColumnTypes, Zenon
  <2>5. Bounded(r)
    BY <2>1, <2>2 DEF NewReservation, Bounded, Least, ReservationLine
  <2>6. c \in Balance
    <3>1. q \in Int /\ 0 \in Int
      BY <2>2
    <3> QED BY <1>0, <2>1, <3>1, CommitmentType
  <2> HIDE DEF r, c
  <2>7. d \in Database /\ d.row[s] = r /\ \A x \in Slots : x # s => d.row[x] = view.row[x]
    BY <1>0, <2>1, <2>4, <2>6, ChangeRows
  <2> HIDE DEF d
  <2>8. view'.row = d.row
    BY <2>3, <2>7, Zenon DEF Database
  <2>9. LifecycleStep(view.row[s], view'.row[s])
    BY <2>3 DEF LifecycleStep, Active, Statuses, ActiveStatuses
  <2> QED BY <1>b, <1>n, <2>1, <2>3, <2>5, <2>7, <2>8, <2>9
<1>5. ASSUME NEW s \in Slots, AllocateReservation(s) PROVE Goal
  <2> DEFINE r == [db.row[s] EXCEPT !.status = "ALLOCATED"]
             n == Open(db.row[s])
  <2>1. r \in Reservation
    BY <1>r, ColumnTypes, Zenon DEF Statuses, ActiveStatuses
  <2>2. -n \in Int /\ n \in Int
    BY <1>r
  <2>3. Transition(s, r, -n, n) /\ db.row[s].status = "RESERVED"
    BY <1>5, Zenon DEF AllocateReservation
  <2>4. LifecycleStep(db.row[s], r) /\ Bounded(r)
    BY <1>r, <2>3, LifecycleMoves, Zenon DEF Statuses, ActiveStatuses
  <2> HIDE DEF r, n
  <2> QED BY <1>d, <2>1, <2>2, <2>3, <2>4, Zenon
<1>6. ASSUME NEW s \in Slots, CancelReservation(s) PROVE Goal
  <2> DEFINE r == [db.row[s] EXCEPT !.status = "CANCELLED"]
             x == IF db.row[s].status = "RESERVED" THEN -Open(db.row[s]) ELSE 0
             y == IF db.row[s].status = "ALLOCATED" THEN -Open(db.row[s]) ELSE 0
  <2>1. r \in Reservation
    BY <1>r, ColumnTypes, Zenon DEF Statuses, ActiveStatuses
  <2>2. x \in Int /\ y \in Int
    BY <1>r
  <2>3. Transition(s, r, x, y) /\ Active(db.row[s])
    BY <1>6, Zenon DEF CancelReservation
  <2>4. LifecycleStep(db.row[s], r) /\ Bounded(r)
    BY <1>r, <2>3, LifecycleMoves, Zenon DEF Statuses, ActiveStatuses
  <2> HIDE DEF r, x, y
  <2> QED BY <1>d, <2>1, <2>2, <2>3, <2>4, Zenon
<1>7. ASSUME NEW s \in Slots, NEW q \in FulfillQuantities, FulfillReservation(s, q) PROVE Goal
  <2> DEFINE n == Least(q, Open(db.row[s]))
             r == Fulfilled(db.row[s], n)
  <2>1. n \in Nat /\ -n \in Int /\ 0 \in Int
    BY <1>r DEF Least
  <2>2. Transition(s, r, 0, -n) /\ Active(db.row[s])
    BY <1>7, Zenon DEF FulfillReservation, Active, ActiveStatuses
  <2> HIDE DEF n
  <2>3. r \in Reservation
    BY <1>r, <2>1, ColumnTypes, Zenon
  <2>4. LifecycleStep(db.row[s], r) /\ Bounded(r)
    BY <1>r, <2>1, <2>2, LifecycleMoves, Zenon
  <2> HIDE DEF r
  <2> QED BY <1>d, <2>1, <2>2, <2>3, <2>4, Zenon
<1>8. ASSUME NEW s \in Slots, TimePasses(s) PROVE Goal
  <2> DEFINE d == [db EXCEPT !.row[s] = [@ EXCEPT !.expiry = "due"]]
             r == [db.row[s] EXCEPT !.expiry = "due"]
  <2>1. Install(d) /\ tx = Idle /\ db.row[s].status = "RESERVED"
    BY <1>8, Zenon DEF TimePasses
  <2>2. d.row[s] = r /\ \A x \in Slots : x # s => d.row[x] = db.row[x]
    BY <1>0, Zenon DEF Database
  <2> HIDE DEF d
  <2>3. LifecycleStep(db.row[s], r) /\ Bounded(r)
    BY <1>r, <2>1, LifecycleMoves, Zenon
  <2> QED BY <1>c, <2>1, <2>2, <2>3
<1>9. ASSUME NEW due \in SUBSET Slots, BeginExpire(due) PROVE Goal
  <2>1. tx'.due \subseteq DueSlots /\ tx = Idle /\ UNCHANGED <<db, view>>
    BY <1>9, Zenon DEF BeginExpire, Begin
  <2>2. \A s \in tx'.due : view.row[s].status = "RESERVED"
    BY <1>0, <2>1 DEF DueSlots, Idle
  <2> QED BY <1>a, <2>1, <2>2, Zenon
<1>10. ASSUME NEW s \in Slots, ExpireRow(s) PROVE Goal
  <2> DEFINE r == [view.row[s] EXCEPT !.status = "EXPIRED"]
             c == ApplyDelta(view.balance[KeyOf[s]], 0, -Open(view.row[s]), 0)
  <2>1. /\ tx.op = "expire" /\ s \in tx.due /\ UNCHANGED db /\ view' = Change(view, s, r, c)
        /\ tx' = [tx EXCEPT !.due = @ \ {s}]
    BY <1>10, Zenon DEF ExpireRow
  <2>2. view.row[s].status = "RESERVED"
    BY <2>1, Zenon DEF LifecycleInv
  <2>3. r \in Reservation
    BY <1>r, ColumnTypes, Zenon DEF Statuses, ActiveStatuses
  <2>4. LifecycleStep(view.row[s], r) /\ Bounded(r)
    BY <1>r, <2>2, LifecycleMoves, Zenon DEF Statuses, ActiveStatuses
  <2>5. c \in Balance
    <3>1. Open(view.row[s]) \in Nat
      BY <1>r, OpenIsNat, Zenon
    <3>2. -Open(view.row[s]) \in Int /\ 0 \in Int
      BY <3>1
    <3> QED BY <1>0, <3>2, CommitmentType, Zenon
  <2> HIDE DEF r, c
  <2>6. view'.row[s] = r /\ \A x \in Slots : x # s => view'.row[x] = view.row[x]
    BY <1>0, <2>1, <2>3, <2>5, ChangeRows
  <2>7. tx'.due = tx.due \ {s}
    BY <1>0, <2>1, Zenon DEF Transaction
  <2> QED BY <1>b, <2>1, <2>4, <2>6, <2>7, Zenon
<1>11. ASSUME NEW h \in Shipments, NEW form \in ShipmentForms, CreateShipment(h, form) PROVE Goal
  <2>1. db'.row = db.row /\ view' = db' /\ tx = Idle /\ tx' = Idle
    BY <1>0, <1>11, Zenon DEF CreateShipment, Install, Database
  <2> QED BY <1>0, <1>r, <2>1, Zenon DEF LifecycleInv, Idle
<1>12. ASSUME NEW h \in Shipments, NEW form \in ShipmentForms, BeginCreateShipment(h, form) PROVE Goal
  <2>1. view'.row = view.row /\ UNCHANGED db /\ tx'.op = "createShipment"
    BY <1>0, <1>12 DEF BeginCreateShipment, Begin, Database
  <2> QED BY <1>a, <2>1, Zenon
<1>13. CASE AutoAllocateLineSkipped
  BY <1>13, <1>a, <1>n DEF AutoAllocateLineSkipped, Running
<1>14. CASE AutoAllocateLine
  <2> DEFINE s == Line.slot
             n == Open(db.row[s])
             r == [view.row[s] EXCEPT !.status = "ALLOCATED"]
             c == ApplyDelta(view.balance[KeyOf[s]], 0, -n, n)
  <2>1. s \in Slots
    BY <1>0, <1>14, LineTypes DEF AutoAllocateLine, Running, ShipmentLine
  <2>2. r \in Reservation
    BY <1>r, <2>1, ColumnTypes, Zenon DEF Statuses, ActiveStatuses
  <2>3. c \in Balance
    <3>1. n \in Int /\ -n \in Int
      BY <1>r, <2>1
    <3> HIDE DEF n
    <3> QED BY <1>0, <2>1, <3>1, CommitmentType, Zenon
  <2>4. /\ view' = Change(view, s, r, c) /\ view.row[s].status = "RESERVED"
        /\ UNCHANGED db /\ NextLine /\ tx.op = "createShipment"
    BY <1>14, Zenon DEF AutoAllocateLine, Running
  <2>5. LifecycleStep(view.row[s], r) /\ Bounded(r)
    BY <1>r, <2>1, <2>4, LifecycleMoves, Zenon DEF Statuses, ActiveStatuses
  <2> HIDE DEF r, c
  <2>6. view'.row[s] = r /\ \A x \in Slots : x # s => view'.row[x] = view.row[x]
    BY <1>0, <2>1, <2>2, <2>3, <2>4, ChangeRows
  <2> QED BY <1>b, <1>n, <2>1, <2>4, <2>5, <2>6, Zenon
<1>15. ASSUME NEW h \in Shipments, BeginPostShipment(h) PROVE Goal
  BY <1>15, <1>a, Zenon DEF BeginPostShipment, Begin
<1>16. CASE ShipLine
  <2> DEFINE s == Line.slot
             k == KeyOf[s]
             qty == Line.quantity
             n == ReserveConsume(Line)
             row == view.row[s]
             b == view.balance[k]
             mid == IF n > 0 THEN AllocatedForShipment(b, row, n) ELSE b
             c == ApplyDelta(mid, -qty, 0, -n)
             r == IF n > 0 THEN Fulfilled(row, n) ELSE row
             d == Change(view, s, r, c)
  <2>1. Line \in ShipmentLine /\ s \in Slots /\ k \in Keys
    BY <1>0, <1>16, LineTypes, Zenon DEF ShipLine, Running, ShipmentLine
  <2>2. n \in Nat /\ -n \in Int /\ qty \in Nat /\ -qty \in Int
    BY <1>0, <2>1, TakenIsNat DEF ShipmentLine
  <2>3. b \in Balance
    BY <1>0, <2>1, Zenon DEF Database
  <2>4. /\ view' = [d EXCEPT !.ledger[k].issue = @ + qty]
        /\ n > 0 => Active(row)
        /\ UNCHANGED db /\ NextLine /\ tx.op = "postShipment"
    BY <1>16, Zenon DEF ShipLine, Running
  <2> HIDE DEF n
  <2>5. mid \in Balance
    <3>1. n \in Int
      BY <2>2
    <3> QED BY <2>3, <3>1, ShipmentAllocationType, Zenon
  <2> HIDE DEF mid
  <2>6. c \in Balance
    <3>1. n \in Int /\ qty \in Int
      BY <2>2
    <3> QED BY <2>5, <3>1, IssueDeltaType, Zenon
  <2>7. r \in Reservation /\ LifecycleStep(row, r) /\ Bounded(r)
    BY <1>r, <2>1, <2>2, <2>4, ColumnTypes, LifecycleMoves, Zenon
  <2> HIDE DEF c, r
  <2>8. d \in Database /\ d.row[s] = r /\ \A x \in Slots : x # s => d.row[x] = view.row[x]
    <3>1. view \in Database /\ s \in Slots /\ r \in Reservation /\ c \in Balance
      BY <1>0, <2>1, <2>6, <2>7, Zenon
    <3> HIDE DEF s
    <3>2. LET e == Change(view, s, r, c) IN
          e \in Database /\ e.row[s] = r /\ \A x \in Slots : x # s => e.row[x] = view.row[x]
      BY <3>1, ChangeRows
    <3> QED BY <3>2, Zenon
  <2> HIDE DEF d
  <2>9. view'.row = d.row
    BY <2>4, <2>8, Zenon DEF Database
  <2> QED BY <1>b, <1>n, <2>1, <2>4, <2>7, <2>8, <2>9
<1>17. CASE CommitPostShipment
  <2>1. db' = [view EXCEPT !.shipment[tx.doc].status = "posted"] /\ view' = db' /\ tx' = Idle
    BY <1>17, Zenon DEF CommitPostShipment
  <2>2. db'.row = view.row /\ view'.row = view.row
    BY <1>0, <2>1, Zenon DEF Database
  <2>3. \A s \in Slots : LifecycleStep(view.row[s], view.row[s])
    BY <1>r, LifecycleMoves, Zenon
  <2> QED BY <1>0, <1>r, <2>1, <2>2, <2>3, Zenon DEF LifecycleInv, Idle
<1>18. ASSUME NEW form \in AdjustmentForms, BeginPostAdjustment(form) PROVE Goal
  BY <1>18, <1>a, Zenon DEF BeginPostAdjustment, Begin
<1>19. CASE AdjustLine
  <2>1. view'.row = view.row /\ UNCHANGED db /\ tx.op = "postAdjustment" /\ NextLine
    BY <1>0, <1>19, Zenon DEF AdjustLine, Running, Database
  <2> QED BY <1>a, <1>n, <2>1
<1>20. CASE Commit
  <2>1. db' = view /\ view' = view /\ tx' = Idle
    BY <1>20 DEF Commit
  <2>2. \A s \in Slots : LifecycleStep(view.row[s], view.row[s])
    BY <1>r, LifecycleMoves, Zenon
  <2> QED BY <1>0, <1>r, <2>1, <2>2, Zenon DEF LifecycleInv, Idle
<1>21. CASE Abort
  <2>1. db' = db /\ view' = db /\ tx' = Idle
    BY <1>21, Zenon DEF Abort
  <2> QED BY <1>0, <1>r, <2>1, Zenon DEF LifecycleInv, Idle
<1>22. CASE UNCHANGED vars
  BY <1>0, <1>r, <1>22, Zenon DEF vars, LifecycleInv
<1> QED
  BY SMTT(20), <1>1, <1>2, <1>3, <1>4, <1>5, <1>6, <1>7, <1>8, <1>9, <1>10, <1>11, <1>12, <1>13, <1>14,
     <1>15, <1>16, <1>17, <1>18, <1>19, <1>20, <1>21, <1>22 DEF Next

(* A reservation that is FULFILLED, CANCELLED or EXPIRED is never revived, *)
(* and no order of ships, cancels, expiries and replays takes an allocated *)
(* one back: the status guards of the handlers suffice.                    *)
THEOREM LifecycleIsForward == Spec => ReservationLifecycle
<1>1. Init => LifecycleInv
  <2> SUFFICES ASSUME Init PROVE LifecycleInv
    BY Zenon
  <2>1. /\ \A s \in Slots : db.row[s] = NoReservation /\ view.row[s] = NoReservation
        /\ tx.op = "idle"
    BY Zenon DEF Init, EmptyDatabase, Idle
  <2>2. Bounded(NoReservation) /\ LifecycleStep(NoReservation, NoReservation)
    BY DEF NoReservation, Bounded, LifecycleStep, Active, Statuses, ActiveStatuses
  <2> QED BY InitTypeOK, <2>1, <2>2, Zenon DEF LifecycleInv
<1>2. LifecycleInv /\ [Next]_vars => [\A s \in Slots : LifecycleStep(db.row[s], db'.row[s])]_vars
  BY LifecycleInvStep, Zenon
<1> QED BY <1>1, <1>2, LifecycleInvStep, PTL DEF Spec, ReservationLifecycle
=============================================================================
