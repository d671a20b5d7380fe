SPECIFICATION Spec
CONSTANTS
    BLOCK = 2
    DIGITS = 2
    W = 64
    LIMIT = 3
    Names = {"a", "b", "c", "dev"}
    FileSizes = {0, 1, 2, 3, 4, 9}
    MaxFiles = 3
    Offsets = {0, 1, 5}
    Lengths = {0, 3, 58}
    Permitted = {}
INVARIANT WalkShowsEveryFile
INVARIANT ReadsAreExact
