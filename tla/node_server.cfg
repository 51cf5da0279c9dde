\* Two calls at a time on one aggregate, two projections on one worker.
SPECIFICATION FairSpec
CONSTANTS
    p1 = p1
    p2 = p2
    Caller = {c1, c2}
    Aggregate = {a1}
    EventType <- Orders
    MaxSequence = 3
    Submitted <- FewEvents
    SnapshotInterval = 2
    NoEvent = NoEvent
    MayAsk = {c2}
    Projection = {p1, p2}
    NameLength <- SharedNames
    Sources <- TwoSources
    WorkerCount = 1
    PromoteThreshold = 1
    MaxQueries <- FewQueries
INVARIANTS CacheCurrent SnapshotNotBehind OvertakenOnlyAtSnapshots AppliedInOrder NoLostWakeup
PROPERTIES StoredIsBroadcast
