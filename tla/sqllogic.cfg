SPECIFICATION MCSpec
CONSTANTS
    Files = {f1, f2, f3}
    Jobs = 2
    Lines <- FlowLines
    MaxLines = 5
    Records <- AllRecords
    Texts <- Parts
    NoText = noText
    MaxParts = 2
INVARIANTS RunsTheScript SacrificeSparesUser
PROPERTIES RunEnds
CHECK_DEADLOCK FALSE
