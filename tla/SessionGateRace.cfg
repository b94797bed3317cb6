\* Four small requests of one thread, no crash: the limit of the code.
SPECIFICATION Spec
CONSTANTS
    r1 = r1
    r2 = r2
    r3 = r3
    t1 = t1
    t2 = t2
    Requests = {r1, r2, r3, q4}
    Threads = {t1, t2}
    NoRequest = NoRequest
    Thread <- OneThread
    Tools <- SmallTools
    ManyPaths = {}
    RecentLimit = 3
    ToolLimit = 4
    Window = 1
    MaxCrashes = 0
SYMMETRY SmallSymmetry
PROPERTIES
    NoThirdCapsuleUnseen
