\* The file tools, the ingestion and signing of deliveries, and the sync server.
SPECIFICATION Spec
CONSTANTS
    Servers = {"api", "mcp"}
    Depth = 2
    MaxNode = 9
    MaxCalls = 1
    MaxChanges = 2
    Requests = {r1, r2, r3}
    Deliveries = {d1, d2}
    DedupTtl = 1
    MaxTime = 2
    MaxLives = 2
    MaxKeys = 2
    NoRequest = NoRequest
    NoDelivery = NoDelivery
    Capsules <- MCCapsules
    Asked <- MCAsked
    OutsidePaths <- MCOutsidePaths
    MaxClock = 3
    MaxLines = 2
SYMMETRY Symmetry
CHECK_DEADLOCK FALSE
INVARIANTS
    ToolsTypeOK
    NeverOutside
    CreationRaceIsBenign
    LeavesOpen
    IngestTypeOK
    RefusedIffRepeated
    OneKeyPair
    IssuedIsVerifiable
    SyncTypeOK
    ServedByNewest
    AnswersAgreeWithAudit
