CONSTANTS
    Queues = {q1}
    PollersPerQueue = 2
    Unary = {u1}
    PoolSize = 1
    MaxRequests = 3
    MaxStreams = 1
    None = None
SPECIFICATION Spec
INVARIANT TypeOK
INVARIANT CallDataTracked
PROPERTY RequestsAnswered
PROPERTY StreamsEnd
CHECK_DEADLOCK FALSE
