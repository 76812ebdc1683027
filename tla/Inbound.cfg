SPECIFICATION Spec
CONSTANTS
  p1 = p1
  p2 = p2
  NumReceipts = 2
  Putaways = {p1, p2}
  Ordered = 2
  MaxQty = 2
  CountSheets <- MCCountSheets
INVARIANTS
  AllocationsMatchEvents
  ReceiptCostConserved
  LayersMatchStock
  QcCompletedMeansDecided
  DecidedByOneEventEvaluated
  PutawayWithinAccepted
  ClosedReceiptSettled
PROPERTY TerminalOrderNotReopened
SYMMETRY PutawaySymmetry
CHECK_DEADLOCK FALSE
