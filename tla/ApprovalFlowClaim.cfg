\* An MCP server starts while an approval is being signed.
SPECIFICATION Spec
CONSTANTS
    Pending = {p1}
    Handlers = {h1, h2}
    NoPending = NoPending
    TTL = 1
    Retention = 1
    MaxFaults = 0
SYMMETRY Symmetry
INVARIANTS
    ClaimIsExclusive
