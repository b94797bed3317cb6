\* The sweep meets the row of an approval that is being signed.
SPECIFICATION Spec
CONSTANTS
    Pending = {p1}
    Handlers = {h1, h2}
    NoPending = NoPending
    TTL = 1
    Retention = 1
    MaxFaults = 0
SYMMETRY Symmetry
PROPERTIES
    HumanWinsOverSweep
