CONSTANTS
    u1 = u1
    u2 = u2
    h1 = h1
    s1 = s1
    NumPayments = 1
    Users <- OneUser
    Hooks <- OneHook
    Sweepers <- None
    Requests = {"create", "cancel", "revert", "qr", "refresh"}
    MaxFaults = 1
SPECIFICATION Spec
INVARIANTS
    TypeOK
    NothingVanishes
    OneFate
PROPERTIES
    FirstStaysOfRecord
    NeverRevived
CHECK_DEADLOCK FALSE
