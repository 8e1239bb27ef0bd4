SPECIFICATION Spec
CONSTANTS
    Objects <- MCObjects
    LikeSqlite <- MCLikeSqlite
    Internal <- MCInternal
    Sources <- LookalikeOnly
    Targets <- MCTargets
    MaxRuns = 1
INVARIANT
    EveryTableCopied
\* Conversions are requested by the user, at most MaxRuns of them.
CHECK_DEADLOCK FALSE
