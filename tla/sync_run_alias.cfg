SPECIFICATION MCSpec
CONSTANTS
    Paths = {p1, p2}
    Temps = {t1}
    Unreached = {}
    SameFile <- MCLinked
INVARIANT
    OnlyOrphansDeleted
