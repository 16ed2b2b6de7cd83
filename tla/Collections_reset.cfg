SPECIFICATION Spec
CONSTANTS
    Tx = {t1}
    Keys = {k1}
    Counters = {x}
    KEY = KEY
    UPDATES = UPDATES
    Missing = Missing
    NoTable = NoTable
    Nobody = Nobody
    Amounts <- MCAmounts
    Decrement = FALSE
    Values = {0}
    Delays = {}
    DecN = 1
    DecS = 1
    ColTimeout = 1
    SameName = TRUE
    IoErrors = FALSE
    MaxOps = 2
    MaxRequests = 1
    MaxTime = 0
CHECK_DEADLOCK FALSE
PROPERTY StoredAsSet
