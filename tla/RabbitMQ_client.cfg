\* Three clients of one connection: a delayed queue, a plain one, an unsupported type.
SPECIFICATION Spec
CONSTANTS
    pub = pub  sub = sub  odd = odd  delayed = delayed  plain = plain  unknown = unknown
    Threads = {pub, sub, odd}
    Configs = {delayed, plain, unknown}
    ConfigOf <- Separate
    Delayed = {delayed}
    Unsupported = {unknown}
    Free = Free
    MaxMessages = 2
    MaxFaults = 1
    MaxWakeups = 1
INVARIANTS TypeOK OneCaller DeadLettersFirst BoundUnlessDisturbed PublishedIsQueued ChainsGoOn
PROPERTY SleeperIsWoken
CHECK_DEADLOCK FALSE
