SPECIFICATION Spec

CONSTANTS
    Parts = 3
    Words = 2
    Voices = {v1, v2}
    Jobs = {j1, j2}
    MaxPolls = 1
    None = None

SYMMETRY VoiceNames
INVARIANT AlignInv
INVARIANT StatusTrue
INVARIANT TasksOwned
PROPERTY ImplementsPartClips
CHECK_DEADLOCK FALSE
