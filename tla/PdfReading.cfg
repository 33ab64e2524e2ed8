SPECIFICATION FollowSpec

CONSTANTS
    Pages = 3
    None = None

INVARIANT FollowInv
INVARIANT RestsWhereAsked
INVARIANT HighlightTrue
PROPERTY ReaderKeepsPlace
PROPERTY OwnScrollKeepsFollowing
PROPERTY FollowCatchesUp
CHECK_DEADLOCK FALSE
