CONSTANTS
    u1 = u1
    u2 = u2
    h1 = h1
    s1 = s1
    NumPayments = 2
    Users <- TwoUsers
    Hooks <- None
    Sweepers <- None
    Requests = {"create", "cancel link", "refresh", "mark paid"}
    MaxFaults = 1
SPECIFICATION Spec
SYMMETRY Symmetry
INVARIANTS
    OverCollectionReported
    LinksDoNotCompete
CHECK_DEADLOCK FALSE
