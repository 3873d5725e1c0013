\* Two deliveries, the runs of their arrivals, a loop and a recovery; no run outlives its lease.
CONSTANTS
    h1 = h1
    l1 = l1
    c1 = c1
    NumEvents = 2
    Handlers <- OneHandler
    Loops <- OneLoop
    Recoveries <- OneRecovery
    BatchSize = 2
    MaxAttempts = 2
    LeaseCoversProcessing = TRUE
SPECIFICATION FairSpec
INVARIANTS ClaimsExclusive NothingForgotten ProcessedWasApplied
PROPERTIES DoneStaysDone EventuallySettled
