CONSTANTS
    r1 = r1
    r2 = r2
    s1 = s1
    s2 = s2
    c1 = c1
    c2 = c2
    NumRecordings = 1
    ChunkSize = 2
    CheckpointEvery = 1
    MaxAttempts = 2
    Runs <- TwoWorkers
    Sweeps <- TwoSweeps
    Clients <- OneClient
    MaxMessages = 1
    MaxRetries = 0
    MaxFaults = 0
SPECIFICATION Spec
INVARIANTS OneRun
CHECK_DEADLOCK FALSE
