SPECIFICATION Cooperative
CONSTANTS
    Slots = {s1, s2, s3}
    Dirs = {d1}
    NULL = NULL
    Priorities = {0, 1}
    MaxPid = 4
    Ops = {"start", "exit", "kill", "schedule"}
    Permitted = {}
PROPERTY EveryTaskRuns
CHECK_DEADLOCK FALSE
