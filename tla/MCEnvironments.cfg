SPECIFICATION EnvironmentsSpec
CONSTANTS
    NumEnvs = 2
    BatchSize = 2
    Total = 2
    MaxSteps = 2
    MaxFaults = 2
    Callers = {c1, c2}
    Sessions = {s1, s2}
    Tasks = {t1}
    MaxGoldens = 1
    MaxPending = 2
    RetryBatch = 1
    MaxCalls = 3
    MaxTroubles = 3
    CuaBoxes = {b1, b2, b3}
    CuaSnaps = {g1, g2}
    CuaFaults = 3
    EvalRuns = 2
    EvalFaults = 2
CHECK_DEADLOCK FALSE
INVARIANTS  NemoSound EnvCleansUp EvaluationsSound
PROPERTIES EpisodesEnd
