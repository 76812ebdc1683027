SPECIFICATION Spec
CONSTANTS
  p1 = p1
  p2 = p2
  NumReceipts = 1
  Putaways = {p1}
  Ordered = 2
  MaxQty = 2
  CountSheets <- MCCountSheets
INVARIANT QcEvaluatedWhenDecided
CHECK_DEADLOCK FALSE
