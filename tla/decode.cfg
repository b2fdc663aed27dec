SPECIFICATION MCSpec
CONSTANTS
    WordBits = 2
    Results <- AllResults
    Values <- AllValues
    CellRead <- CellAt
    UserValue <- Shown
    Tried <- AllTried
    MaxDepth = 2
    W = 8
    Half <- NarrowWords
    Group = 2
    FracDigits = 1
    Sexa = 2
    Hours = 2
    MaxOffset = 7
    OffsetBits = 4
    Dirs <- TheDirs
    Files <- TheFiles
    Users = {u1, u2}
    MaxEngines = 2
    LogicalTypes <- TheTypes
    MaxNesting = 2
    Columns <- TheColumns
INVARIANTS RowsAsProduced ConversionsExact OwnedExactly
CHECK_DEADLOCK FALSE
SYMMETRY Symmetry
