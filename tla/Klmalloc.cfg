SPECIFICATION Spec
CONSTANTS
    Threads = {t1, t2}
    PAGE_SIZE = 32
    MAX = 96
    W = 256
    SKIP_MAX_LEVEL = 1
    Sizes = {8, 20}
    ReallocSizes = {0, 20}
    CallocSizes = {8}
    VallocSizes = {1}
    MaxBlocks = 3
    Permitted = {"no_memory", "realloc_zero"}
INVARIANT OneThreadInside
INVARIANT BlocksSound
INVARIANT FreeListsSound
PROPERTY LockComesFree
CHECK_DEADLOCK FALSE
