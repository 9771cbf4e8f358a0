\* Two objects rewrite a playlist of two pieces, and two things go wrong.
SPECIFICATION Spec
CONSTANTS
    m = m  e1 = e1  e2 = e2  u = u  v = v  w = w
    Editors = {a, b}
    Extinf = {e1, e2}
    Url = {u, v}
    Meta = {m, w}
    End = End
    Empty = Empty
    Spoilt <- Stumps
    Nuls = w
    None = None
    Stale = Stale
    Starts <- Variants
    MaxLines = 4
    MaxFaults = 2
INVARIANTS TypeOK NeverMixed CutIsPrefix PiecesKept
CHECK_DEADLOCK FALSE
SYMMETRY Interchangeable
