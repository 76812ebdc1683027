------------------------- MODULE MCInventoryCommand -------------------------
(***************************************************************************)
(* An instance of InventoryCommand for TLC.  The rows are a reservation    *)
(* and the inventory_balance rows of two items, which are also the ATP     *)
(* targets 1 and 2.                                                        *)
(*                                                                         *)
(* c1 posts a shipment of both items: it takes the ATP targets, then the   *)
(* reservation.  c2 cancels that reservation: it locks the row in          *)
(* lockTargets and the ATP target after it.  c3 and c4 are one request for *)
(* both items, sent twice under one key, the first time READ COMMITTED and *)
(* not retried, as receipts and putaways are; c2 uses their key for its    *)
(* own request.  c1 lists its targets in the opposite order, c2 names its  *)
(* target twice.  The shipment's own row, which no other call wants, is    *)
(* left out, and so are the retries of c2: c1, on the other side of their  *)
(* deadlock, has them.                                                     *)
(***************************************************************************)
EXTENDS InventoryCommand

CONSTANTS c1, c2, c3, c4, k1, k2, reservation, balance1, balance2

Is(c, d, yes, no) == IF c = d THEN yes ELSE no

MCKeyOf == [c \in Calls |-> Is(c, c1, k1, k2)]

MCHashOf == [c \in Calls |-> Is(c, c2, "other", "same")]

MCFirstRows == [c \in Calls |-> Is(c, c2, <<reservation>>, << >>)]

MCAtpTargets == [c \in Calls |-> Is(c, c1, <<2, 1>>, Is(c, c2, <<1, 1>>, <<1, 2>>))]

MCLaterRows ==
    [c \in Calls |-> Is(c, c1, <<reservation, balance1>>,
                     Is(c, c2, <<balance1>>, <<balance1, balance2>>))]

MCRetries == [c \in Calls |-> IF c \in {c2, c3} THEN 0 ELSE 1]

MCSerializable == [c \in Calls |-> c # c3]
=============================================================================
