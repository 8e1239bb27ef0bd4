SPECIFICATION Spec
CONSTANTS
    none = none
    NaN = NaN
    Null = none
    Char <- MCChar
    Texts <- MCTexts
    Number <- MCNumber
    Collation <- MCCollation
    Results <- MCResults
    MaxResults = 2
    MaxClicks = 2
INVARIANTS
    RowsShown
    Sorted
    SavedReadsBack
    CopiedPastes
\* Queries and clicks are bounded.
CHECK_DEADLOCK FALSE
