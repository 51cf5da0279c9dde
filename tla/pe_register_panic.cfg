\* A projection is registered while the engine runs and an event arrives.
SPECIFICATION Spec
CONSTANTS
    p1 = p1
    p2 = p2
    Projection = {p1, p2}
    NameLength <- TwoLengths
    Sources <- TwoSources
    WorkerCount = 2
    QueueCapacity = 1
    ChannelCapacity = 1
    PromoteThreshold = 1
    Querier = {}
    MaxEvents = 1
    MaxQueries = 1
    NoEvent = NoEvent
    NoUpdate = NoUpdate
    NoProjection = NoProjection
CHECK_DEADLOCK FALSE
INVARIANT NoNilDereference
