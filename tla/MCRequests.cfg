SPECIFICATION RequestsSpec
CONSTANTS
    c1 = c1
    e1 = e1
    e2 = e2
    Conns = {c1}
    Execs = {e1, e2}
    MaxExecs = 1
    OutboundCap = 1
    FunnelCap = 1
    OutputBudget = 1
    PipeCap = 1
    MaxChunks = 2
    Keys = {k1, k2}
    Contents = {x, y}
    None = None
    MaxNodes = 3
    DiffBudget = 2
    MaxId = 4
    MaxRevision = 3
SYMMETRY Symmetry
INVARIANTS AnswersAreHonest ExecsSound  DiffFaithful
