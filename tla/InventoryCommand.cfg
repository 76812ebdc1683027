SPECIFICATION FairSpec
CONSTANTS
    c1 = c1
    c2 = c2
    c3 = c3
    c4 = c4
    k1 = k1
    k2 = k2
    reservation = reservation
    balance1 = balance1
    balance2 = balance2
    NoKey = NoKey
    Calls = {c1, c2, c3, c4}
    Keys = {k1, k2}
    Rows = {reservation, balance1, balance2}
    KeyOf <- MCKeyOf
    HashOf <- MCHashOf
    FirstRows <- MCFirstRows
    AtpTargets <- MCAtpTargets
    LaterRows <- MCLaterRows
    Retries <- MCRetries
    Serializable <- MCSerializable
INVARIANTS
    TypeOK
    NoLostUpdate
    CyclesNeedUnguardedRow
PROPERTIES
    ImplementsOnceOnly
    EveryCallEnds
CHECK_DEADLOCK FALSE
