\* Two matches, one lost connection or one renewed session.
CONSTANTS
    MaxEvents = 2
    Matching = {1, 2}
    Starts <- MCStarts
    BatchSize = 2
    Threshold = 1
    MaxTroubles = 1
SPECIFICATION FairSpec
INVARIANTS
    NothingSkipped
    HintsAreServed
    BoundedSilence
PROPERTIES
    EventuallyDelivered
    SubscribeReturns
