CONSTANTS
    r1 = r1
    r2 = r2
    s1 = s1
    s2 = s2
    c1 = c1
    c2 = c2
    NumRecordings = 2
    ChunkSize = 2
    CheckpointEvery = 1
    MaxAttempts = 2
    Runs <- TwoWorkers
    Sweeps <- OneSweep
    Clients <- OneClient
    MaxMessages = 1
    MaxRetries = 1
    MaxFaults = 1
CONSTRAINT Unshared
SPECIFICATION FairSpec
INVARIANTS TypeOK OneRunPerClaim RecordedIsStored CompletedIsWhole
PROPERTIES DownloadedOnce EveryExportEnds
CHECK_DEADLOCK FALSE
