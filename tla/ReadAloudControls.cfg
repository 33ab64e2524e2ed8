SPECIFICATION Spec

CONSTANTS
    Attachments = {a1}
    Voices = {v1}
    DocParts = 1
    SelParts = 2
    Words = 1
    SeekStep = 2
    RestartAfter = 0
    Ids = {1, 2}
    MaxTime = 0
    Controls <- AllControls
    None = None

INVARIANT Inv
INVARIANT PlayHasEffect
INVARIANT LoadedIsShown
INVARIANT WaitIsInFlight
PROPERTY SeekLands
PROPERTY ImplementsPlayback
CHECK_DEADLOCK FALSE
