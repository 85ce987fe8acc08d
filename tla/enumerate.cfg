SPECIFICATION MCSpec
CONSTANTS
    Files <- MCFiles
    Dirs <- MCDirs
    Root = "top"
    Parent <- MCParent
    Links <- MCLinks
    Target <- MCTarget
    Workers = 2
INVARIANTS
    KeepsPromise
    LevelIsQuiet
PROPERTY
    Returns
