SPECIFICATION Spec
CONSTANTS
    Letter <- MCLetter
    Long <- MCLong
    Chunk = 4
    None = None
    Docs <- MCBoundaryDocs
    Callers = {c1, c2}
    Timings <- MCTimings
    Clock <- MCClock
CHECK_DEADLOCK FALSE
INVARIANT BoundaryKept
