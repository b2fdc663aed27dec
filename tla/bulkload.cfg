SPECIFICATION Spec
CONSTANTS
    Groups = {g1, g2}
    MaxRows = 3
    VectorSize = 2
    MaxCalls = 3
    Blobs = {b1, b2, b3}
    None = None
    AllRows = AllRows
    MaxHandles = 3
    Keys = {g1, g2}
    RowSet <- NumberedRows
INVARIANTS EachRowOnce EachRowFoldedOnce NoStateLeaks
PROPERTIES LooksInline
CHECK_DEADLOCK FALSE
SYMMETRY Symmetry
