SPECIFICATION Spec

CONSTANTS
    Parts = 2
    Words = 2
    Voices = {v1, v2}
    Jobs = {j1, j2}
    MaxPolls = 1
    None = None

PROPERTY AligningEnds
PROPERTY TasksGo
CHECK_DEADLOCK FALSE
