SPECIFICATION FairSpec
CONSTANTS
    Collectors = {c1, c2}
    Files = {f1, f2}
    Resent = {f2}
    None = None
INVARIANT RemovedAfterTwoSubmissions
PROPERTY FilesRemoved
CHECK_DEADLOCK FALSE
