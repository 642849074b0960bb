\* Two hooks of a session, two at a time; an import, again and again, of up to three heartbeats.
SPECIFICATION ImportSpec
CONSTANTS
    None = None
    Processes = {p1, p2}
    Sessions = {s1}
    Projects = {j1, j2}
    MaxTime = 3
    Timeout = 2
    WakapiTimeout = 3
    Day = 3
    MaxBeats = 3
    MaxHooks = 2
    MaxFaults = 1
SYMMETRY Symmetric
INVARIANTS ImportTypeOK DoublyCountedTimeHasACause ImportedTimeIsDisjoint
CHECK_DEADLOCK FALSE
