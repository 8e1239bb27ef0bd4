SPECIFICATION FairSpec
CONSTANTS
    sqlite = sqlite
    duckdb = duckdb
    stray = stray
    memory = memory
    t1 = t1
    t2 = t2
    Files <- MCFiles
    Duck <- MCDuck
    Mem = memory
    Stray = stray
    Tables <- OneTable
    Modes <- OneMode
    NoDb = NoDb
    NoTable = NoTable
    MaxTasks = 3
    MaxStarts = 2
    MaxLaunches = 1
    MaxVer = 2
INVARIANTS
    TypeOK
    EachAwaitsOne
    PathShown
    SidebarFresh
    ResultOfConn
    BusyHeld
PROPERTY HandlersReturn
\* The user may stop acting.
CHECK_DEADLOCK FALSE
