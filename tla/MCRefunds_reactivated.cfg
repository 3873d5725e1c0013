SPECIFICATION Spec
CONSTANTS
    agent = agent
    manager = manager
    admin = admin
    p1 = p1
    c1 = c1
    c2 = c2
    Users = {admin, manager}
    Approvers = {admin, manager}
    Payments = {p1}
    Amount <- MCAmount
    RequestAmounts = {2}
    Keys = {}
    NoKey = NoKey
    Calls = {c1, c2}
    Workers = {w1}
    ShopifyLinked = FALSE
    GraceCoversCalls = FALSE
    MaxRequests = 1
    MaxAttempts = 3
CHECK_DEADLOCK FALSE
INVARIANTS
    ApprovedOnCancelledOrder
SYMMETRY Slots
