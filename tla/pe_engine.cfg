\* Two projections on two workers, through start, stop and registration.
SPECIFICATION Spec
CONSTANTS
    p1 = p1
    p2 = p2
    Projection = {p1, p2}
    NameLength <- TwoLengths
    Sources <- TwoSources
    WorkerCount = 2
    QueueCapacity = 1
    ChannelCapacity = 1
    PromoteThreshold = 1
    Querier = {q1}
    MaxEvents = 2
    MaxQueries = 1
    NoEvent = NoEvent
    NoUpdate = NoUpdate
    NoProjection = NoProjection
CHECK_DEADLOCK FALSE
INVARIANTS AppliedInOrder PromotionEarned PanicsOnlyInRaces
