------------------------------ MODULE MCInbound ------------------------------
(* Instances of Inbound for TLC. *)
EXTENDS Inbound, TLC

CONSTANTS p1, p2

PutawaySymmetry == Permutations(Putaways)

Count(s, n) == [status |-> s, qty |-> n]
Uncounted == [l \in Roles |-> Count("none", 0)]

\* No count; one count at a location, with the status kept there or with none;
\* and two counts, of statuses that belong there and of ones that do not.
MCCountSheets ==
  {Uncounted,
   [Uncounted EXCEPT !["HOLD"] = Count("HOLD", 1)],
   [Uncounted EXCEPT !["REJECT"] = Count("any", MaxQty)],
   [Uncounted EXCEPT !["QA"] = Count("QA", 0), !["SELLABLE"] = Count("any", MaxQty)],
   [Uncounted EXCEPT !["QA"] = Count("any", 1), !["SELLABLE"] = Count("AVAILABLE", 0)],
   [Uncounted EXCEPT !["QA"] = Count("HOLD", 1), !["REJECT"] = Count("HOLD", 0)]}

=============================================================================
