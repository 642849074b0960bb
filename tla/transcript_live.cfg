\* The agent's walk over three transcripts, the second of which cannot be opened.
SPECIFICATION FairSpec
CONSTANTS
    s1 = s1
    s2 = s2
    s3 = s3
    NoSession = NoSession
    LastPath = 3
    Readable = {1, 3}
    Scanners = {agent}
    Agent = agent
    MetaSessions <- OneSessionEach
    Kinds = {"meta", "bad"}
    MaxLines = 3
    MaxUpsets = 1
PROPERTY EventuallyCollected
CHECK_DEADLOCK FALSE
