\* Two goroutines write batches over two aggregates through two connections.
SPECIFICATION FairSpec
CONSTANTS
    t1 = t1
    t2 = t2
    a1 = a1
    a2 = a2
    Thread = {t1, t2}
    Aggregate = {a1, a2}
    MaxOpenConns = 2
    Request <- SmallRequests
INVARIANTS SequenceTableExact OneTransactionPerAggregate
PROPERTIES ImplementsAtomicLog CallsReturn
