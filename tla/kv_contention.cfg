\* Two goroutines write one aggregate; one of them writes another too, also in batches.
SPECIFICATION Spec
CONSTANTS
    t1 = t1
    t2 = t2
    a1 = a1
    a2 = a2
    Thread = {t1, t2}
    Aggregate = {a1, a2}
    MayWrite <- SharedAndOwn
    MayBatch = {t1}
    MaxSequence = 2
    MaxBatch = 2
    NoAggregate = NoAggregate
INVARIANTS MemoryFollowsDisk SequenceKeyHasEvent AcknowledgedReadable GapsComeFromBatches
