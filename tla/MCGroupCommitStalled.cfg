\* The executor of b1 hangs; b1 has calls enough to fill its queue.
CONSTANTS
    r1 = r1
    r2 = r2
    r3 = r3
    r4 = r4
    b1 = b1
    b2 = b2
    Requests = {r1, r2, r3, r4}
    Boundaries = {b1, b2}
    BoundaryOf <- TwoBoundaries
    EventsOf <- SingleEvents
    MaxBatchRequests = 2
    MaxBatchEvents = 2
    MaxPending = 1
    Delayed = TRUE
    Cancellable = {}
    Stalled = {b1}
SPECIFICATION FairSpec
PROPERTY SubmitReturns
\* Close waits for the worker of b1.
CHECK_DEADLOCK FALSE
