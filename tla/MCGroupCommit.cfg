\* One boundary, three calls of uneven sizes, a queue of two, a cancellation.
CONSTANTS
    r1 = r1
    r2 = r2
    r3 = r3
    r4 = r4
    b1 = b1
    b2 = b2
    Requests = {r1, r2, r3}
    Boundaries = {b1}
    BoundaryOf <- OneBoundary
    EventsOf <- UnevenEvents
    MaxBatchRequests = 2
    MaxBatchEvents = 2
    MaxPending = 2
    Delayed = FALSE
    Cancellable = {r1}
    Stalled = {}
SPECIFICATION FairSpec
INVARIANTS
    NoSendOnClosedQueue
    WaitingRequestIsOwned
    ErrClosedMeansNotExecuted
    OutcomeMeansApplied
    ExecutedInAdmissionOrder
PROPERTIES
    SubmitReturns
    CloseReturns
