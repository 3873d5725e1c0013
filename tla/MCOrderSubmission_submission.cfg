SPECIFICATION Spec
CONSTANTS
    h1 = h1
    h2 = h2
    Keys = {k1}
    Bodies = {b1, b2}
    Handlers = {h1, h2}
    Writers = {w1}
    Mishaps = {"late create", "executed 50x", "failed write", "outlived lease"}
    MaxOrders = 2
    MaxPlaced = 2
INVARIANTS
    OneOrderPerKey
    OwnOrder
    LinksExist
    OrphansRemembered
    SecondOrderNeedsMishap
SYMMETRY SameNames
