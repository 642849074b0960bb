\* Four hooks of two sessions and two projects, two at a time, one of which may die.
SPECIFICATION SyncSpec
CONSTANTS
    None = None
    Processes = {p1, p2}
    Sessions = {s1, s2}
    Projects = {j1, j2}
    MaxTime = 3
    Timeout = 2
    SyncInterval = 2
    Batch = 4
    MaxHooks = 4
    MaxFaults = 1
SYMMETRY Symmetric
INVARIANTS SyncTypeOK HookTimeIsDisjoint MissingTimeHasACause
PROPERTY PassedOverTimeHasACause
CHECK_DEADLOCK FALSE
