SPECIFICATION FairSpec
CONSTANTS
    receipt = receipt
    adjustment = adjustment
    reservation = reservation
    completion = completion
    w1 = w1
    w2 = w2
    Nobody = Nobody
    Movements = {receipt, adjustment, reservation, completion}
    Workers = {w1, w2}
    Kind <- KindOf
    MaxSeq = 3
    MaxCrashes = 1
INVARIANTS
    CostedOnce
    HandledInOrder
    OnlyOvertakenSkipped
    SummaryRepaired
PROPERTIES
    EventsHandled
CHECK_DEADLOCK FALSE
