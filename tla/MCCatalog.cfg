SPECIFICATION Spec
CONSTANTS
    t = t
    sqlitedata = sqlitedata
    NoName = NoName
    Own = Own
    Other = Other
    Attached = Attached
    Names <- MCNames
    SqliteLike <- MCSqliteLike
    Broken <- MCBroken
    MaxVer = 3
    MaxCommits = 2
    MaxRequests = 2
INVARIANTS
    TypeOK
    DetailOfCall
    ListedDescribed
    SidebarListed
    SidebarEmptied
\* Requests and commits are bounded.
CHECK_DEADLOCK FALSE
