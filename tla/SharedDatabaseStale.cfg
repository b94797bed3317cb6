\* A write that timed out, a query, and a write again.
SPECIFICATION Spec
CONSTANTS
    Tasks = {k1, k2, k3, k4}
    NoTask = NoTask
    MaxCrashes = 0
SYMMETRY Symmetry
PROPERTIES
    FailsOnlyBehindAWriter
