SPECIFICATION FairSpec
CONSTANTS
    a1 = a1
    a2 = a2
    b1 = b1
    ka = ka
    kb = kb
    h1 = h1
    h2 = h2
    Slots = {a1, a2, b1}
    Keys = {ka, kb}
    KeyOf <- MCKeyOf
    Shipments = {h1}
    NoShipment = NoShipment
    ReservationRequests <- TwoKeyRequests
    ShipmentForms <- TwoKeyShipments
    AdjustmentForms <- TwoKeyAdjustments
    FulfillQuantities = {1}
    NegativeOverride = TRUE
    MaxOnHand = 3
INVARIANTS
    LedgerProjected
    BalanceSound
    CommitmentsProjected
    NeverOversold
    ReservedCovered
    ShipmentsIssuedOnce
PROPERTIES
    ReservationLifecycle
    DueReservationsRelease
