CONSTANTS
    t1 = t1
    t2 = t2
    h1 = h1
    h2 = h2
    Tickers <- TwoTickers
    Handlers <- TwoHandlers
    MaxAttempts = 2
    MaxTries = 2
    MaxReplies = 1
    Scenes <- Callbacks
SPECIFICATION Spec
PROPERTY StatusMovesForward
CHECK_DEADLOCK FALSE
