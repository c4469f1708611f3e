SPECIFICATION FairSpec
CONSTANTS
    c1 = c1
    c2 = c2
    n1 = n1
    Trusted = {c1}
    Noise = {n1}
    Analyser = FALSE
    MaxRevisions = 2
    EnvCap = 3
    MaxTime = 2
    Bounds <- LiveBounds
PROPERTIES QueuedRoundResolves CommentAnswered
