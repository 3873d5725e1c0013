SPECIFICATION Spec
CONSTANTS
    agent = agent
    manager = manager
    admin = admin
    p1 = p1
    c1 = c1
    c2 = c2
    Users = {agent, admin}
    Approvers = {admin}
    Payments = {p1}
    Amount <- MCAmount
    RequestAmounts = {1, 2}
    Keys = {}
    NoKey = NoKey
    Calls = {c1}
    Workers = {w1}
    ShopifyLinked = FALSE
    GraceCoversCalls = FALSE
    MaxRequests = 2
    MaxAttempts = 1
CHECK_DEADLOCK FALSE
INVARIANTS
    PayoutsCovered
    BalanceHeld
    AccountedOnce
PROPERTIES
    ImplementsLedger
