SPECIFICATION Spec
CONSTANTS
    t1 = t1
    t2 = t2
    Tasks = {t1, t2}
    NoTask = NoTask
    Confs <- Policies
    MaxPatch <- Patches
    MaxBase = 1
    MaxRounds = 1
    MaxFaults = 1
INVARIANTS ApprovalFollowsPatch ExactHeadMerged
 
CHECK_DEADLOCK FALSE
