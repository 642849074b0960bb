\* Two hooks scan a transcript of up to five lines and two turns, restored once.
SPECIFICATION Spec
CONSTANTS
    NoTurn = NoTurn
    Scanners = {s1, s2}
    Turns = {t1, t2}
    Counts = {0, 2}
    OldLines = {2}
    MaxLines = 5
    MaxScans = 3
    MaxUpsets = 1
SYMMETRY Symmetric
INVARIANTS TypeOK UsageIsExact NoTurnSkipped
CHECK_DEADLOCK FALSE
