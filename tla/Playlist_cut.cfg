\* One object, and a crash while it writes.
SPECIFICATION Spec
CONSTANTS
    m = m  e1 = e1  e2 = e2  u = u  v = v  w = w
    Editors = {a}
    Extinf = {e1, e2}
    Url = {u, v}
    Meta = {m, w}
    End = End
    Empty = Empty
    Spoilt <- Stumps
    Nuls = w
    None = None
    Stale = Stale
    Starts <- Written
    MaxLines = 9
    MaxFaults = 1
INVARIANT PiecesHaveAddresses
CHECK_DEADLOCK FALSE
