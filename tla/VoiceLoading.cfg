SPECIFICATION Spec

CONSTANTS
    Attachments = {a1}
    Voices = {v1, v2}
    DocParts = 1
    SelParts = 1
    Words = 2
    SeekStep = 1
    RestartAfter = 0
    Ids = {1, 2}
    MaxTime = 0
    Controls = {"document", "page", "voice"}
    None = None

PROPERTY VoiceAlwaysKeepsPlace
CHECK_DEADLOCK FALSE
