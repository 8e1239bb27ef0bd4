SPECIFICATION Spec
CONSTANTS
    Char <- MCChar
    Names <- MCNames
    Paths <- MCPaths
    PathMax = 6
INVARIANTS
    TypeOK
    NamesSurvive
    FolderReady
    FailureHasCause
PROPERTIES
    OnlyFoldersAbove
