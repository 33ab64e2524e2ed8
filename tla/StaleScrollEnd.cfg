SPECIFICATION NavSpec

CONSTANTS
    Pages = 4
    None = None

PROPERTY KeptDuringGlide
CHECK_DEADLOCK FALSE
