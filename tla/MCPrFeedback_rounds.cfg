SPECIFICATION Spec
CONSTANTS
    c1 = c1
    c2 = c2
    n1 = n1
    Trusted = {c1, c2}
    Noise = {}
    Analyser = TRUE
    MaxRevisions = 2
    EnvCap = 3
    MaxTime = 2
    Bounds <- RoundBounds
INVARIANTS HandledOnce FeedbackKept  CiVerdictKept
SYMMETRY Symmetry
