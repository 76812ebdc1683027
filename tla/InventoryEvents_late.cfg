SPECIFICATION Spec
CONSTANTS
    receipt = receipt
    adjustment = adjustment
    reservation = reservation
    completion = completion
    w1 = w1
    w2 = w2
    Nobody = Nobody
    Movements = {receipt, adjustment}
    Workers = {w1, w2}
    Kind <- KindOf
    MaxSeq = 4
    MaxCrashes = 1
INVARIANTS
    SummaryRebuilt
CHECK_DEADLOCK FALSE
