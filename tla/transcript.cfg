\* One transcript that may be restored, two scanners, a reset.
SPECIFICATION Spec
CONSTANTS
    s1 = s1
    s2 = s2
    s3 = s3
    NoSession = NoSession
    LastPath = 1
    Readable = {1}
    Scanners = {agent, other}
    Agent = agent
    MetaSessions <- OwnSessions
    Kinds = {"meta", "event", "other", "bad"}
    MaxLines = 3
    MaxUpsets = 2
SYMMETRY Symmetric
INVARIANTS TypeOK NoLineSkipped SequenceFollowsTheFile EventsKeepTheirSession
CHECK_DEADLOCK FALSE
