SPECIFICATION Spec
CONSTANTS
    Procs = {p0, p1, p2}
    Past = {p0}
    MaxCalls = 1
    MaxFaults = 1
INVARIANTS
    FileWhole
    HistoryKept
    CodesHonest
