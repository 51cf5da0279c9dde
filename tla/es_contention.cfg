\* Two goroutines race for the numbers of one aggregate; one also asks for its state.
SPECIFICATION FairSpec
CONSTANTS
    Thread = {t1, t2}
    Aggregate = {a1}
    Subscriber = {s1}
    MayWrite <- AnyWriter
    MayQuery = {t2}
    MaxSequence = 3
    SnapshotInterval = 2
    ChannelCapacity = 2
    NoEvent = NoEvent
    NoState = NoState
INVARIANTS LogGapFree AcknowledgedIsStored CacheNotAhead DeliveredOnceStored
PROPERTIES ImplementsAppendLog CallsReturn
