SPECIFICATION MCSpec
CONSTANTS
    Files = {f1, f2, f3, f4, f5}
    Producers = {p1, p2}
    Writers = {w1}
    Capacity = 4
    NoFile = NoFile
INVARIANTS
    QueueTypeOK
    NoStall
    CountsComplete
PROPERTY
    Finishes
