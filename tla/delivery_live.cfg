\* Transcript events and a rejected one: the agent, two requests at a time, one fault.
SPECIFICATION FairSpec
CONSTANTS
    head = head
    body = body
    waka = waka
    bad = bad
    None = None
    Idle = Idle
    Events = {head, body, bad}
    Wakapi <- MCWakapi
    Versions = {1}
    At <- MCAt
    Valid <- MCValid
    Carriers <- MCCarriers
    Sessions = {1, 2}
    SessionOf <- MCSessionOf
    Handlers = {h1, h2}
    Clients = {agent}
    Agent = agent
    Limit = 2
    MaxFaults = 1
PROPERTY EventuallyDelivered
CHECK_DEADLOCK FALSE
