\* Two services of up to three nodes, two threads: every interleaving.
SPECIFICATION RSpec
CONSTANTS
    Services = {s1, s2}
    Hosts = {h1, h2}
    Unreachable = {h2}
    Threads = {t1, t2}
    None = None
    Undefined = Undefined
    Free = Free
    MaxNodes = 3
SYMMETRY Interchangeable
INVARIANTS TypeOK LockDiscipline RoundRobin RoundIsArc
PROPERTIES CursorDiscipline ImplementsDirectory
