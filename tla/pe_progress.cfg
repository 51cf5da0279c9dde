\* Two projections on one worker: what must eventually happen.
SPECIFICATION FairSpec
CONSTANTS
    p1 = p1
    p2 = p2
    Projection = {p1, p2}
    NameLength <- TwoLengths
    Sources <- TwoSources
    WorkerCount = 1
    QueueCapacity = 1
    ChannelCapacity = 1
    PromoteThreshold = 1
    Querier = {}
    MaxEvents = 3
    MaxQueries = 1
    NoEvent = NoEvent
    NoUpdate = NoUpdate
    NoProjection = NoProjection
CHECK_DEADLOCK FALSE
PROPERTIES UpdatesApplied RegistrationsComplete StopEndsGoroutines
