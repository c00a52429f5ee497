SPECIFICATION SdkSpec
CONSTANTS
    s1 = s1
    s2 = s2
    Sessions = {s1, s2}
    Sizes = {1}
    QueueMax = 2
    Budget = 2
    CompactMin = 1
    CompactFactor = 1
    MaxFrames = 2
    MaxStarts = 1
    MaxWire = 1
SYMMETRY Symmetry
INVARIANTS CallsSound QueuesSound
