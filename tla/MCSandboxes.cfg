SPECIFICATION SandboxesSpec
CONSTANTS
    Procs = {p1, p2}
    Boxes = {s1, s2}
    Images = {i1, i2}
    Attempts = 2
    Budget = 5
    Scopes = {b1, b2}
    Movers = {m1, m2}
    Transport = "store"
    MaxMoves = 1
    Tries = 2
    Polls = TRUE
    Stale = FALSE
    SweNames = {"default", "a b"}
    SweCmds = {1, 2, 3}
    SweBoxes = {11, 12}
    SweTries = 2
    SweFaults = 2
    Stoppers = {"stop", "cancel"}
    MaxExecs = 2
    Jobs = {1}
SYMMETRY Symmetry
CHECK_DEADLOCK FALSE
INVARIANTS   CarriedSound
PROPERTIES GcSparesLive
