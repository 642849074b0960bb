\* Three runs of configure and two clients that start up to three times.
SPECIFICATION Spec
CONSTANTS
    NoToken = NoToken
    Attempts = {n1, n2, n3}
    Clients = {agent, hook}
    MaxStarts = 3
SYMMETRY Symmetric
INVARIANTS TypeOK OneIdentity InvalidTokenHasACause
CHECK_DEADLOCK FALSE
