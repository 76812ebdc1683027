--------------------------- MODULE MCReservations ---------------------------
(***************************************************************************)
(* Instances of Reservations for TLC: slots a1 and a2 compete for the      *)
(* stock of Key ka; slot b1 has Key kb to itself, so that a document can   *)
(* span two Keys and fail on the second.                                   *)
(***************************************************************************)
EXTENDS Reservations, TLC

CONSTANTS a1, a2, b1, ka, kb, h1, h2

MCKeyOf == [s \in Slots |-> IF s = b1 THEN kb ELSE ka]

Want(s, q, backorder, fulfilled, expires) ==
    [slot |-> s, quantity |-> q, allowBackorder |-> backorder,
     quantityFulfilled |-> fulfilled, expires |-> expires]

Ship(s, q) == [slot |-> s, quantity |-> q]

Adjust(k, n) == [key |-> k, delta |-> n]

(* One Key: partial and whole requests, with and without backorders and    *)
(* expiry, against at most three units of stock.                           *)
OneKeyRequests ==
    {<<Want(a1, 2, TRUE, 0, TRUE)>>, <<Want(a2, 2, TRUE, 0, TRUE)>>,
     <<Want(a2, 1, FALSE, 0, FALSE)>>}

OneKeyShipments == {<<Ship(a1, 1)>>, <<Ship(a1, 2), Ship(a2, 1)>>}

OneKeyAdjustments == {<<Adjust(ka, 3)>>, <<Adjust(ka, -1)>>}

(* Two Keys: requests, shipments and adjustments of several lines whose    *)
(* later lines can fail after the earlier ones have been applied.          *)
TwoKeyRequests ==
    {<<Want(a1, 1, FALSE, 0, TRUE), Want(b1, 1, FALSE, 0, TRUE)>>,
     <<Want(a2, 2, TRUE, 0, FALSE)>>}

TwoKeyShipments == {<<Ship(a1, 1), Ship(b1, 2)>>, <<Ship(a2, 2), Ship(a1, 1)>>}

TwoKeyAdjustments ==
    {<<Adjust(ka, 2), Adjust(kb, 2)>>, <<Adjust(kb, -1), Adjust(ka, -1)>>}

(* A shipment with two lines for one sales order line.                     *)
RepeatedLineRequests == {<<Want(a1, 3, FALSE, 0, FALSE)>>, <<Want(a2, 2, FALSE, 0, FALSE)>>}

RepeatedLineShipments == {<<Ship(a1, 2), Ship(a1, 2)>>}

RepeatedLineAdjustments == {<<Adjust(ka, 6)>>}

(* A reservation created with quantityFulfilled.                           *)
PrefulfilledRequests == {<<Want(s, 2, TRUE, 1, TRUE)>> : s \in Slots}

ShipmentSymmetry == Permutations(Shipments)
=============================================================================
