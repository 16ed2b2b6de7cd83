SPECIFICATION Spec
CONSTANTS
    Tx = {t1, t2}
    Keys = {k1}
    Counters = {x}
    KEY = KEY
    UPDATES = UPDATES
    Missing = Missing
    NoTable = NoTable
    Nobody = Nobody
    Amounts <- MCAmounts
    Decrement = TRUE
    Values = {0}
    Delays = {1}
    DecN = 1
    DecS = 1
    ColTimeout = 1
    SameName = TRUE
    IoErrors = TRUE
    MaxOps = 2
    MaxRequests = 2
    MaxTime = 2
CHECK_DEADLOCK FALSE
INVARIANTS
    TypeOK
    LockHeldToStore
    EveryCollectionExpires
    NoExpiredValueSeen
PROPERTIES
    EveryStoreCounted
    IncrementsKept
SYMMETRY Symmetry
