SPECIFICATION Spec
CONSTANTS
    l1 = l1
    l2 = l2
    l3 = l3
    t1 = t1
    t2 = t2
    t3 = t3
    h1 = h1
    h2 = h2
    Main = Main
    Mgr = Mgr
    Sig = Sig
    None = None
    NoFile = NoFile
    Garbage = Garbage
    Lines = {l1, l2}
    BadLines = {}
    EmptyLines = {}
    LongLines = {}
    CommentLines = {}
    Threads = {t1}
    Handles = {h1}
    max_worker_requests = 0
    keep_entries = FALSE
    opt_force = FALSE
    Signals = FALSE
    CreateMayFail = FALSE
    StrayReads = FALSE
    MaxCheckpoints = 1
    MaxRestarts = 0
INVARIANTS
    PendingEntriesDumped
CHECK_DEADLOCK FALSE
