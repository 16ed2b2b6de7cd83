SPECIFICATION Spec
CONSTANTS
    l1 = l1
    l2 = l2
    l3 = l3
    t1 = t1
    t2 = t2
    t3 = t3
    h1 = h1
    h2 = h2
    Main = Main
    Mgr = Mgr
    Sig = Sig
    None = None
    NoFile = NoFile
    Garbage = Garbage
    Lines = {l1, l2}
    BadLines = {l1, l2}
    EmptyLines = {}
    LongLines = {}
    CommentLines = {}
    Threads = {t1, t2}
    Handles = {h1, h2}
    max_worker_requests = 0
    keep_entries = TRUE
    opt_force = FALSE
    Signals = FALSE
    CreateMayFail = TRUE
    StrayReads = TRUE
    MaxCheckpoints = 1
    MaxRestarts = 0
SYMMETRY FullSymmetry
INVARIANTS
    TypeOK
    MutexOwner
    EntryOwnedOnce
    HandleAccounting
    SteadyEntriesDumped
CHECK_DEADLOCK FALSE
