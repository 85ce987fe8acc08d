SPECIFICATION Spec
CONSTANTS
    Chunks = {"x", "y"}
    Trees <- MCTrees
    Threads = {0, 2, 4}
    DefaultThreads = 6
    Cores = 2
    FewChunks = 1
INVARIANTS
    DiffZeroMeansEqual
    VerdictsTrue
    NoneLost
    ThreadCeiling
PROPERTY
    Finishes
