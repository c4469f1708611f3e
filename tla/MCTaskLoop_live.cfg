SPECIFICATION FairSpec
CONSTANTS
    MaxAttempts = 1
    MaxRevisions = 1
    EnvCap = 2
    Bounds <- LiveBounds
PROPERTIES RunningResolves RecordsClosed
