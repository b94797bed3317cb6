\* Two requests of one thread and one of another, persist failures, one crash.
SPECIFICATION FairSpec
CONSTANTS
    r1 = r1
    r2 = r2
    r3 = r3
    t1 = t1
    t2 = t2
    Requests = {r1, r2, r3}
    Threads = {t1, t2}
    NoRequest = NoRequest
    Thread <- TwoThreads
    Tools <- MixedTools
    ManyPaths = {r3}
    RecentLimit = 2
    ToolLimit = 4
    Window = 1
    MaxCrashes = 1
INVARIANTS
    TypeOK
    AutoCapsuleIsDurable
    SavedStaysCounted
    ToolCountAgrees
    LoggedIsDurable
PROPERTIES
    LockIsGranted
