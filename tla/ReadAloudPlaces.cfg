SPECIFICATION FairSpec
CONSTANTS
    Attachments = {a1}
    Voices = {v1, v2}
    DocParts = 1
    SelParts = 2
    Words = 2
    SeekStep = 1
    RestartAfter = 0
    Ids = {1, 2}
    MaxTime = 0
    Controls = {"selection", "jump", "play", "part", "voice"}
    None = None
INVARIANT ClipsMatch
INVARIANT OthersWhole
PROPERTY JumpLands
PROPERTY VoiceKeepsPlace
PROPERTY AnswersKeepPlace
PROPERTY ImplementsPartClips
CHECK_DEADLOCK FALSE
PROPERTY WaitsEnd
