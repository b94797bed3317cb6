\* One request, two concurrent handlers, fair sweep and clock, two faults.
SPECIFICATION FairSpec
CONSTANTS
    Pending = {p1}
    Handlers = {h1, h2}
    NoPending = NoPending
    TTL = 2
    Retention = 1
    MaxFaults = 2
PROPERTIES
    EveryRequestDecided
    ResolvedRowsPurged
