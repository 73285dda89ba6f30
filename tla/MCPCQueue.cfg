CONSTANTS
    Producers = {p1}
    Consumers = {c1, c2, c3}
    Items = {i1, i2}
    NoItem = NoItem
    NoThread = NoThread
    QueueBound = 2
SPECIFICATION FairSpec
INVARIANTS
    PopNonEmpty
    NoLostWakeup
    ProducerNeverSleeps
PROPERTIES
    FifoSafety
    FifoProgress
    PushReturns
