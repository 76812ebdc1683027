SPECIFICATION Spec
CONSTANTS
    a1 = a1
    a2 = a2
    b1 = b1
    ka = ka
    kb = kb
    h1 = h1
    h2 = h2
    Slots = {a1, a2}
    Keys = {ka}
    KeyOf <- MCKeyOf
    Shipments = {h1}
    NoShipment = NoShipment
    ReservationRequests <- RepeatedLineRequests
    ShipmentForms <- RepeatedLineShipments
    AdjustmentForms <- RepeatedLineAdjustments
    FulfillQuantities = {1, 3}
    NegativeOverride = FALSE
    MaxOnHand = 6
INVARIANTS
    CommitmentsProjected
