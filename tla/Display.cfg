SPECIFICATION Spec
CONSTANTS
    WIDTH = 3
    HEIGHT = 3
    TAB = 2
    BYTE = 8
    DCOL = 1
    Dates <- MCDates
    Keys <- MCKeys
    MaxKeys = 4
    Permitted = {}
INVARIANT ClockIsInvisible
INVARIANT HardwareCursorFollows
INVARIANT LineIsShown
INVARIANT DateIsShown
CHECK_DEADLOCK FALSE
