\* A wanted and an unwanted service at two hosts, lookups going on; watches do not resume.
SPECIFICATION FairSpec
CONSTANTS
    p1 = p1  p2 = p2  s1 = s1  s2 = s2  h1 = h1  h2 = h2
    Keys = {p1, p2}
    MaxFaults = 1
    LossIs = {FALSE}
    Services = {s1, s2}
    Hosts = {h1, h2}
    Unreachable = {}
    Threads = {w, a}
    None = None
    Undefined = Undefined
    Free = Free
    MaxNodes = 8
    Watcher = w
    Wanted = {s1}
    SvcOf <- TwoServices
    AddrOf <- TwoHosts
PROPERTIES ViewConverges FoundWasRegistered
CHECK_DEADLOCK FALSE
