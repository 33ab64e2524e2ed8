SPECIFICATION Spec
CONSTANTS
    Letter <- MCLetter
    Long <- MCLong
    Chunk = 3
    None = None
    Docs <- MCDocs
    Callers = {c1, c2}
    Timings <- MCTimings
    Clock <- MCClock
INVARIANT TextSpoken
INVARIANT AskersServed
INVARIANT HighlightIsHeard
INVARIANT JumpReaches
INVARIANT PageRight
INVARIANT ClickRight
CHECK_DEADLOCK FALSE
