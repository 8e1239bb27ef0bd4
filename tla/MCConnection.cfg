SPECIFICATION FairSpec
CONSTANTS
    p1 = p1
    i1 = i1
    Nil = Nil
    InMemory = InMemory
    Paths <- MCPaths
    DuckSuffix <- MCDuckSuffix
    Pids <- MCPids
    NumChunks = 2
    MaxSnaps = 2
    MaxVer = 1
INVARIANTS
    TypeOK
    SnapshotComplete
    SnapshotFresh
    StraysExplained
PROPERTIES
    SnapshotUntouched
    KeepsPromise
    RequestAnswered
