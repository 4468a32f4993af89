\* Five events that want positions when only three can have one; up to two writes
\* through every door, with pages of two events.
CONSTANTS
    a = a
    b = b
    r1 = r1
    r2 = r2
    r3 = r3
    Predicates = {a, b}
    Requests = {r1, r2, r3}
    Docs <- MCDocs
    Queries <- MCQueries
    MaxBatch = 3
    MaxId = 4
    MaxCrashes = 1
    Nil = Nil
    TextOrder <- MCTextOrder
    NulTexts = {"nul"}
    Tokens <- MCTokens
    ReservedKeys = {"__eventId", "__eventType"}
    maxConsistencyObservations = 2
    maxConsistencyCriteria = 3
    maxConsistencyTags = 5
    Backends = {"sqlite", "postgres"}
    Boundary = "b"
    ValidNames = {"b", "c"}
    UUIDs = {"u1", "u2"}
    SaveRequests <- MCSaveRequests
    ReadRequests <- MCReadRequests
    LatestRequests <- MCLatestRequests
    StreamRequests <- MCStreamRequests
    DefaultReadBatchSize = 2
    MaxReadBatchSize = 3
    batchSize = 2
    MaxWrites = 2
SPECIFICATION MCSpec
INVARIANTS
    PositionsAreDense
    OutcomesAreTrue
    ContextExplainsWrite
    RepliesMeanRequests
PROPERTY ImplementsEventLog
\* Every request is answered.
CHECK_DEADLOCK FALSE
