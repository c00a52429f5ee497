SPECIFICATION AgentSpec
CONSTANTS
    MaxTags = 3
    Messages <- MCMessages
    ShotPeers = {"a", "b"}
    Settings = {"png", "jpeg"}
    Contents = {"x", "y"}
    Entries = 2
    MaxShots = 2
    TurnSteps = 3
    TurnBatch = 2
    BatchActs = 3
    DeskPoints = {"p1", "p2"}
    DeskKeys = {"a", "b"}
    DeskSteps = 3
    DeskLines = 3
INVARIANTS  TurnsSound BatchesHonest  ShotsSound
