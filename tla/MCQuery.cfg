SPECIFICATION Spec
CONSTANTS
    a = a
    b = b
    blank = blank
    blob = blob
    Null = Null
    Junk = Junk
    Texts <- MCTexts
    NoText <- MCNoText
    Empty = blank
    Scripts <- MCScripts
    MaxRows = 4
    FirstRows = 1
    MaxRequests = 2
INVARIANTS
    TypeOK
    StoresInBounds
    ReplyExact
    NoLeak
    FreesStored
    
\* Requests are the user's, at most MaxRequests of them.
CHECK_DEADLOCK FALSE
