CONSTANTS
    Paths <- SmallPaths
    NameLen <- SmallNames
    FirstTree <- SmallTree
    FirstNodes <- SmallNodes
    MaxNodes = 3
    MaxSize = 2
    Bytes = {1}
    MaxFd = 5
    MaxHandle = 2
    BufLens = {4, 7, 10, 30}
    Hdr = 3
    OpenFlags = {{}, {"write", "trunc"}, {"creat", "append"}, {"creat", "excl"}, {"directory"}}
SPECIFICATION Spec
INVARIANTS ReaddirOnce AppendsAtEnd
CHECK_DEADLOCK FALSE
