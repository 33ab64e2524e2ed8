SPECIFICATION Spec

CONSTANTS
    Attachments = {a1}
    Voices = {v1}
    DocParts = 1
    SelParts = 1
    Words = 1
    SeekStep = 1
    RestartAfter = 0
    Ids = {1, 2}
    MaxTime = 0
    Controls = {"selection", "outside", "document"}
    None = None

INVARIANT LoadingHasCause
CHECK_DEADLOCK FALSE
