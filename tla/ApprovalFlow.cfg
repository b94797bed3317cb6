\* Two requests for approval, two concurrent handlers, the sweep, one fault.
SPECIFICATION Spec
CONSTANTS
    Pending = {p1, p2}
    Handlers = {h1, h2}
    NoPending = NoPending
    TTL = 1
    Retention = 2
    MaxFaults = 1
SYMMETRY Symmetry
INVARIANTS
    TypeOK
    CapsuleIffApproved
    AuditTellsOutcome
PROPERTIES
    RetentionRespected
    ImplementsLifecycle
