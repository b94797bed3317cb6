\* Four capsules, two concurrent requests to the API server, one over stdio, one crash.
SPECIFICATION Spec
CONSTANTS
    c1 = c1
    c2 = c2
    c3 = c3
    c4 = c4
    q1 = q1
    q2 = q2
    q3 = q3
    t1 = t1
    t2 = t2
    Capsules = {c1, c2, c3, c4}
    Calls = {q1, q2, q3}
    Threads = {t1, t2}
    None = None
    ThreadOf <- MCThreadOf
    ServerOf <- MCServerOf
    Lists = {q2}
    Grants <- MCGrants
    Unverifiable = {c3}
    Life = 1
    MaxCrashes = 1
CHECK_DEADLOCK FALSE
INVARIANTS
    TypeOK
    EffectIsLogged
    EffectIsGranted
PROPERTIES
    ImplementsMonitor
    BindingNeverRegresses
    AdmittedByNewest
