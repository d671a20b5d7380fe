SPECIFICATION Spec
CONSTANTS
    PAGE = 16
    W = 512
    START = 16
    HOLE = 32
    INITIAL_END = 64
    MAX = 96
    HEAP_MIN_SIZE = 16
    Sizes = {11}
    Aligned = {3}
    MaxBlocks = 4
    Permitted = {}
INVARIANT HeapIsTiled
INVARIANT HolesMerged
INVARIANT CallsReturn
CHECK_DEADLOCK FALSE
