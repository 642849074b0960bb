\* A transcript event, a rejected one, and a wakapi event that changes: two clients, two requests at a time, a fault.
SPECIFICATION Spec
CONSTANTS
    head = head
    body = body
    waka = waka
    bad = bad
    None = None
    Idle = Idle
    Events = {head, waka, bad}
    Wakapi <- MCWakapi
    Versions = {v1, v2}
    At <- MCAt
    Valid <- MCValid
    Carriers <- MCCarriers
    Sessions = {1, 2}
    SessionOf <- MCSessionOf
    Handlers = {h1, h2}
    Clients = {agent, hook}
    Agent = agent
    Limit = 2
    MaxFaults = 1
SYMMETRY Symmetric
INVARIANTS TypeOK AckedEventsAreStored RunsComeFromTheLedger StaleRunsHaveACause
PROPERTIES AckedEventsStayAcked ImplementsEventTransfer
CHECK_DEADLOCK FALSE
