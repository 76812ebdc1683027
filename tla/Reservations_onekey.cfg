SPECIFICATION Spec
CONSTANTS
    a1 = a1
    a2 = a2
    b1 = b1
    ka = ka
    kb = kb
    h1 = h1
    h2 = h2
    Slots = {a1, a2}
    Keys = {ka}
    KeyOf <- MCKeyOf
    Shipments = {h1, h2}
    NoShipment = NoShipment
    ReservationRequests <- OneKeyRequests
    ShipmentForms <- OneKeyShipments
    AdjustmentForms <- OneKeyAdjustments
    FulfillQuantities = {1, 3}
    NegativeOverride = FALSE
    MaxOnHand = 3
SYMMETRY ShipmentSymmetry
INVARIANTS
    TypeOK
    LedgerProjected
    BalanceSound
    CommitmentsProjected
    NeverOversold
    ReservedCovered
    ShipmentsIssuedOnce
PROPERTIES
    ReservationLifecycle
