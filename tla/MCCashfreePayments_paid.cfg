CONSTANTS
    u1 = u1
    u2 = u2
    h1 = h1
    s1 = s1
    NumPayments = 1
    Users <- OneUser
    Hooks <- None
    Sweepers <- OneSweeper
    Requests = {"create", "qr", "mark paid", "cancel link"}
    MaxFaults = 1
SPECIFICATION FairSpec
PROPERTIES PaidIsRecorded PaidOnceIsConfirmed
CHECK_DEADLOCK FALSE
