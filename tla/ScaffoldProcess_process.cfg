\* Two threads make three calls of any kind, and every step may fail; a
\* counter of three values.
SPECIFICATION ProcessSpec
CONSTANTS
    Threads = {t1, t2}
    MaxCalls = 3
    Width = 3
INVARIANTS TypeOK LeftBehind StaleUse InitialisedLives RecentIdsDiffer
CHECK_DEADLOCK FALSE
SYMMETRY Interchangeable
