\* Clocks in order, and clocks that may go back between events.
SPECIFICATION Spec
CONSTANTS
    Sessions = {1, 2}
    RunIDs = {r1, r2}
    NoRun = NoRun
    Grace = 1
    Maximum = 2
    Times = {0, 1, 3}
    TokenCounts = {0}
    EventIDs = {e1, e2, e3, e4}
    \* prompt_submitted is treated as run_started, run_failed as run_completed.
    EventKinds = {"run_started", "run_completed", "run_interrupted", "token_usage",
                  "session_closed", "lease"}
SYMMETRY Symmetric
INVARIANTS IndInv OneOpenRun IdleTimeBounded SupersededRunsDoNotOverlap
           ExpiryAgrees ExpiryIndependentOfReads
PROPERTIES SettledRunsKeepTheirEnd
CHECK_DEADLOCK FALSE
