SPECIFICATION Spec

CONSTANTS
    Attachments = {a1, a2}
    Voices = {v1}
    DocParts = 4
    SelParts = 1
    Words = 2
    SeekStep = 1
    RestartAfter = 0
    Ids = {1}
    MaxTime = 0
    Controls = {"document", "outside", "jump", "page"}
    None = None

INVARIANT UrlsHeld
PROPERTY StartPrunes
PROPERTY DocumentAsAsked
PROPERTY MarkFollowsReader
PROPERTY ResumeAtMark
SYMMETRY Names
CHECK_DEADLOCK FALSE
