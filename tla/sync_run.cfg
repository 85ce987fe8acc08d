SPECIFICATION MCSpec
CONSTANTS
    Paths = {p1, p2}
    Temps = {t1, t2}
    Unreached = {t2}
    SameFile <- MCDistinct
SYMMETRY MCSymmetric
INVARIANTS
    OnlyOrphansDeleted
    SuccessMeansMirrored
    TempsRespected
