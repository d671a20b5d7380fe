SPECIFICATION Spec
CONSTANTS
    Slots = {s1, s2, s3, s4}
    Dirs = {d1, d2}
    NULL = NULL
    Priorities = {0, 1}
    MaxPid = 4
    Ops = {"start", "fork", "exit", "kill", "schedule", "algorithm"}
    Permitted = {"fork_above"}
SYMMETRY Addresses
INVARIANT ListSound
INVARIANT ResumeSound
PROPERTY PreemptsByPriority
PROPERTY ArrangeSorts
PROPERTY ImplementsRunQueue
CHECK_DEADLOCK FALSE
