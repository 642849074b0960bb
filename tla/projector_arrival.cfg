\* Every list of up to five of the log's eight events.
SPECIFICATION ArrivalSpec
CONSTANTS
    r1 = r1
    r2 = r2
    r3 = r3
    Sessions = {1, 2}
    RunIDs = {r1, r2, r3}
    NoRun = NoRun
    Grace = 1
    Maximum = 2
    Log <- MCLog
    MaxArrivals = 5
    Day = 4
INVARIANTS OnlyTheSetMatters SessionsIndependent RebuildsAreAccepted ReportsShowRecentRuns
CHECK_DEADLOCK FALSE
