SPECIFICATION FairSpec
CONSTANTS
    N = 2
    Threshold = 2
    MaxGen = 2
    Bounds <- PoolBounds
PROPERTIES  NoRevival PoolSettles
CHECK_DEADLOCK FALSE
