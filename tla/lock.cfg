SPECIFICATION Spec
CONSTANTS
    x = x
    y = y
    z = z
    procA = procA
    procB = procB
    Openers = {x, y, z}
    Procs = {procA, procB}
    Files = {db}
    Layouts <- OneOrTwo
INVARIANTS Exclusive RegistryExact NoStaleLock
PROPERTIES RefusalJustified ImplementsRWLock
