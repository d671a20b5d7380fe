SPECIFICATION FairSpec
CONSTANTS
    STDIO_SIZE = 3
    KEYBOARD_BUFFER_SIZE = 2
    MaxKeys = 4
    MaxOverrun = 2
    Kinds = {"char", "dead", "release"}
INVARIANT IndicesBounded
INVARIANT NewestKeySurvives
INVARIANT SilentIffEarly
PROPERTY ReadInOrder
PROPERTY BufferRewinds
PROPERTY NewestKeyIsRead
CHECK_DEADLOCK FALSE
