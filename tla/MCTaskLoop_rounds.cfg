SPECIFICATION Spec
CONSTANTS
    MaxAttempts = 2
    MaxRevisions = 1
    EnvCap = 2
    Bounds <- RoundBounds
INVARIANTS AttemptBudget  FinishedWorkUsed OneWriter RunFollowed
