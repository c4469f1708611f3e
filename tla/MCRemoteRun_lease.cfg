SPECIFICATION FairSpec
CONSTANTS
    h1 = h1
    h2 = h2
    Hosts = {h1, h2}
    NoHost = NoHost
    MaxGen = 2
    Bounds <- RunBounds
INVARIANTS ResultIntact 
PROPERTIES VerdictFinal FinishedWorkDelivered RunEnds
CHECK_DEADLOCK FALSE
