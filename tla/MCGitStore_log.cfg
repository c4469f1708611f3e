SPECIFICATION Spec
CONSTANTS
    u1 = u1
    u2 = u2
    Users = {u1, u2}
    Ids = {claimId, handoffId}
    claimId = claimId
    handoffId = handoffId
    x = x
    y = y
    Inputs = {x, y}
    Conflicts <- MCConflicts
    NoId = NoId
    Retries = 2
    MaxPushes = 3
    MaxCrashes = 1
    MaxCalls = 3
    MaxTampering = 1
SYMMETRY Sym
INVARIANTS AnswersTrue
PROPERTIES ImplementsLog
CHECK_DEADLOCK FALSE
