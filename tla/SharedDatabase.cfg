\* Three tasks of any kind on the five connections, one crash.
SPECIFICATION Spec
CONSTANTS
    Tasks = {k1, k2, k3}
    NoTask = NoTask
    MaxCrashes = 1
SYMMETRY Symmetry
INVARIANTS
    TypeOK
    AllOrNothing
    AnsweredIsCommitted
    NobodyIsStuck
PROPERTIES
    ImplementsAtomicCalls
