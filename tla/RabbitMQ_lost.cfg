\* One thread alone on its client.
SPECIFICATION Spec
CONSTANTS
    pub = pub  sub = sub  odd = odd  delayed = delayed  plain = plain  unknown = unknown
    Threads = {pub}
    Configs = {plain}
    ConfigOf <- Shared
    Delayed = {}
    Unsupported = {}
    Free = Free
    MaxMessages = 0
    MaxFaults = 0
    MaxWakeups = 0
PROPERTY DeclarationReturns
CHECK_DEADLOCK FALSE
