SPECIFICATION Spec
CONSTANTS
    a1 = a1
    a2 = a2
    b1 = b1
    ann = ann
    root = root
    Installations = {a1, a2, b1}
    Members = {ann, root}
    Admins = {root}
    Of <- MCOf
    NoOne = NoOne
    Keys = {"reap"}
    Beside = FALSE
    MaxGen = 2
    MaxChanges = 1
    MaxCrashes = 1
SYMMETRY Sym
INVARIANTS OneExecutor WorkUnderAuthority UnresolvedPins
PROPERTY ExecutedOnce
CHECK_DEADLOCK FALSE
