\* A publisher and a consumer of another queue, two messages.
SPECIFICATION Spec
CONSTANTS
    pub = pub  sub = sub  odd = odd  delayed = delayed  plain = plain  unknown = unknown
    Threads = {pub, sub}
    Configs = {delayed, plain}
    ConfigOf <- Separate
    Delayed = {delayed}
    Unsupported = {}
    Free = Free
    MaxMessages = 2
    MaxFaults = 0
    MaxWakeups = 0
INVARIANT DeclaredIsBound
CHECK_DEADLOCK FALSE
