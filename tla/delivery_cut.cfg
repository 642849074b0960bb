\* One failure between the commit of a batch and the rebuild of its session, and the retry.
SPECIFICATION Spec
CONSTANTS
    head = head
    body = body
    waka = waka
    bad = bad
    None = None
    Idle = Idle
    Events = {head, body}
    Wakapi <- MCWakapi
    Versions = {1}
    At <- MCAt
    Valid <- MCValid
    Carriers <- MCCarriers
    Sessions = {1, 2}
    SessionOf <- MCSessionOf
    Handlers = {h1}
    Clients = {agent}
    Agent = agent
    Limit = 2
    MaxFaults = 1
INVARIANT ProjectionsFollowTheLedger
CHECK_DEADLOCK FALSE
