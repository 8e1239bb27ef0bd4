SPECIFICATION Spec
CONSTANTS
    sqlite = sqlite
    duckdb = duckdb
    stray = stray
    memory = memory
    t1 = t1
    t2 = t2
    Files <- MCFiles
    Duck <- MCDuck
    Mem = memory
    Stray = stray
    Tables <- OneTable
    Modes <- OneMode
    NoDb = NoDb
    NoTable = NoTable
    MaxTasks = 2
    MaxStarts = 3
    MaxLaunches = 1
    MaxVer = 2
PROPERTY ExportsResult
\* The user may stop acting.
CHECK_DEADLOCK FALSE
