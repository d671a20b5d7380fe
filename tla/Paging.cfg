SPECIFICATION Spec
CONSTANTS
    nframes = 20
    TABLE = 4
    KERNEL = 2
    STACK = 8
    STACK_SIZE = 2
    HEAP = 12
    INITIAL_END = 13
    MAX = 18
    MaxTables = 12
    Dirs = {d0, d1, d2, d3}
    kernel_directory = d0
    NULL = NULL
    Writable <- SomePages
    Contents = {x, y}
    Blank = x
    Permitted = {}
SYMMETRY TaskDirs
INVARIANT TypeOK
INVARIANT FrameHasOneOwner
INVARIANT KernelIsShared
PROPERTY CloneIsCopy
PROPERTY StacksArePrivate
CHECK_DEADLOCK FALSE
