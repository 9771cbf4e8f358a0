\* An instance and its successor at one address; watches may break and resume.
SPECIFICATION Spec
CONSTANTS
    p1 = p1  p2 = p2  s1 = s1  s2 = s2  h1 = h1  h2 = h2
    Keys = {p1, p2}
    MaxFaults = 2
    LossIs = {TRUE, FALSE}
    Services = {s1}
    Hosts = {h1}
    Unreachable = {}
    Threads = {w}
    None = None
    Undefined = Undefined
    Free = Free
    MaxNodes = 8
    Watcher = w
    Wanted = {s1}
    SvcOf <- OneService
    AddrOf <- OneHost
SYMMETRY Interchangeable
INVARIANTS TypeOK ViewExact NodesNotLost RunningIsFound
CHECK_DEADLOCK FALSE
