-------------------------- MODULE MCInventoryEvents --------------------------
(***************************************************************************)
(* Instances of InventoryEvents for TLC: a receipt that records its layer, *)
(* a movement the projector costs, an event of another type, and a work-   *)
(* order movement without cost activity.                                   *)
(***************************************************************************)
EXTENDS InventoryEvents

CONSTANTS receipt, adjustment, reservation, completion, w1, w2

KindOf ==
    [m \in Movements |->
        CASE m = receipt -> "costed"
          [] m = adjustment -> "uncosted"
          [] m = reservation -> "other"
          [] m = completion -> "forbidden"]
=============================================================================
