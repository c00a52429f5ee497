SPECIFICATION ScreencastSpec
CONSTANTS
    Conns = {c1, c2}
    CallIds = {i1, i2}
    MaxScreencasts = 1
    RegistryMax = 1
    OutboundCap = 1
    ResumeTtl = 1
    MaxGen = 2
    MaxSeq = 2
INVARIANTS
    TypeOK
    OwnerInSync
    PermitsConserved
    NoOrphanCapture
    RegistryBounded
PROPERTIES
    LogicalSpec
    StreamsEnd
