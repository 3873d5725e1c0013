CONSTANTS
    t1 = t1
    t2 = t2
    h1 = h1
    h2 = h2
    Tickers <- TwoTickers
    Handlers <- OneHandler
    MaxAttempts = 2
    MaxTries = 2
    MaxReplies = 1
    Scenes <- Day
SPECIFICATION FairSpec
INVARIANTS TypeOK CopiesNeedLostAnswers CancelledIsNotSent
PROPERTIES EveryMessageSettles
CHECK_DEADLOCK FALSE
