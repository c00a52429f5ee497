SPECIFICATION EndsSpec
CONSTANTS
    Procs <- StepProcs
    Kind <- StepKind
    Calls <- StepCalls
    MaxOutput = 0
    Replicas = {1, 2}
    Threads = {11, 12}
    Concurrent = FALSE
    TsPromises = 2
    TsStreamed = 2
    Snaps = {1, 2}
    DonorWork = 3
    Resumes = 2
    Attempts = 2
 
PROPERTIES NoCallHangs ExecsEnd FleetKept TsSettles DumpsSound
