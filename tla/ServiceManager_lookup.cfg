\* A lookup after a removal that left the cursor beyond the end.
SPECIFICATION Spec
CONSTANTS
    Services = {s1}
    Hosts = {h1, h2}
    Unreachable = {h2}
    Threads = {t1, t2}
    None = None
    Undefined = Undefined
    Free = Free
    MaxNodes = 2
SYMMETRY Interchangeable
PROPERTY LookupFindsNode
