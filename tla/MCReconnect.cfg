CONSTANTS
    Streams = {1, 2}
    DeltaStreams = {1}
    Width = 3
    Pixels = {0, 1}
    Blank = 9
    RingMax = 1
    KeyframeInterval = 2
    InOrder = TRUE
    MaxDraws = 2
    MaxReconnects = 1
SPECIFICATION HealingSafety
INVARIANT ChangeNeverSkipped
