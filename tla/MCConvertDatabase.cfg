SPECIFICATION FairSpec
CONSTANTS
    Objects <- MCObjects
    LikeSqlite <- MCLikeSqlite
    Internal <- MCInternal
    Sources <- MCSources
    Targets <- MCTargets
    MaxRuns = 2
INVARIANTS
    TypeOK
    ViewsAccounted
    SqliteViewsInOrder
    NoInternalTable
PROPERTIES
    KeepsPromise
    IsAnswered
\* Conversions are requested by the user, at most MaxRuns of them.
CHECK_DEADLOCK FALSE
