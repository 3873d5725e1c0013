\* Violation: a run that outlived its lease writes a delivery that is done.
CONSTANTS
    h1 = h1
    l1 = l1
    c1 = c1
    NumEvents = 1
    Handlers <- OneHandler
    Loops <- OneLoop
    Recoveries <- None
    BatchSize = 1
    MaxAttempts = 2
    LeaseCoversProcessing = FALSE
SPECIFICATION Spec
PROPERTIES DoneStaysDone
