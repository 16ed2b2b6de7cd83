SPECIFICATION Spec
CONSTANTS
    Tx = {t1, t2}
    Keys = {k1}
    Counters = {x}
    KEY = KEY
    UPDATES = UPDATES
    Missing = Missing
    NoTable = NoTable
    Nobody = Nobody
    Amounts <- MCAmounts
    Decrement = FALSE
    Values = {}
    Delays = {}
    DecN = 1
    DecS = 1
    ColTimeout = 1
    SameName = TRUE
    IoErrors = FALSE
    MaxOps = 1
    MaxRequests = 2
    MaxTime = 1
CHECK_DEADLOCK FALSE
PROPERTY OnlyStaleRemoved
