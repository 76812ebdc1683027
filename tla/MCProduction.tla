---------------------------- MODULE MCProduction ----------------------------
(***************************************************************************)
(* Instances of Production for TLC.  Some averages of the costs are whole  *)
(* and some are rounded.                                                   *)
(***************************************************************************)
EXTENDS Production, TLC

CONSTANTS w1, w2, t1, t2

MCUnitCosts == <<8, 8, 15, 16>>

MCSymmetry == Permutations(WorkOrders) \cup Permutations(Calls)
=============================================================================
