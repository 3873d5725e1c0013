SPECIFICATION FairSpec
CONSTANTS
    h1 = h1
    h2 = h2
    Keys = {k1}
    Bodies = {b1}
    Handlers = {h1, h2}
    Writers = {}
    Mishaps = {}
    MaxOrders = 1
    MaxPlaced = 2
PROPERTIES
    EventuallyLinked
